---------------------------- MODULE Spec2Model ----------------------------
(***************************************************************************)
(* A model of BiocUtils' name-addressable containers.                      *)
(*                                                                         *)
(*   Names      (src/src/biocutils/Names.py): a list of strings with a     *)
(*              lazily built reverse index (name -> first position).       *)
(*   NamedList  (src/src/biocutils/NamedList.py): a data list with an      *)
(*              optional parallel Names object.                            *)
(*   Factor     (src/src/biocutils/Factor.py): an array of integer codes   *)
(*              into a table of level strings.                             *)
(*   match      (src/src/biocutils/match.py): the position of each value   *)
(*              in a list of targets.                                      *)
(*                                                                         *)
(* Python objects live in three heaps (NamedList objects, data lists,      *)
(* Names objects); an object field holds the identity of the list or Names *)
(* it refers to, so two NamedLists that refer to the same list see each    *)
(* other's in-place changes, as in Python.  Positions are Python           *)
(* positions (0-based, -1 for "not found"); TLA+ sequences are 1-based, so *)
(* element p of a Python list s is s[p + 1].                               *)
(***************************************************************************)
EXTENDS Integers, Sequences, FiniteSets, TLC

VARIABLES objs, lists, nams, factors, arrays, last, steps

vars == <<objs, lists, nams, factors, arrays, last, steps>>

(***************************************************************************)
(* Bounds of the model.                                                    *)
(***************************************************************************)
\* longest Names / data list an operation may produce
MaxLen == 4
\* longest list handed to a constructor or to extend, slice assignment
MaxArg == 2
\* number of calls in one behaviour of the NamedList specification
MaxSteps == 2
\* number of calls in one behaviour of the deep NamedList specification
DeepSteps == 3

\* the strings used as names ("" is the name of an unnamed element)
Strs == {"", "a", "b"}

\* all sequences over S of length lo..hi
SeqsOf(S, lo, hi) == UNION {[1..n -> S] : n \in lo..hi}

\* the smaller / larger of two integers
Min2(a, b) == IF a < b THEN a ELSE b
Max2(a, b) == IF a > b THEN a ELSE b
\* the smallest / largest member of a non-empty set of integers
Smallest(S) == CHOOSE m \in S : \A k \in S : m <= k
Largest(S) == CHOOSE m \in S : \A k \in S : m >= k

(***************************************************************************)
(* Python list primitives.                                                 *)
(***************************************************************************)
\* s[i] is defined for -len(s) <= i < len(s)
PyValidIndex(s, i) == i >= -Len(s) /\ i < Len(s)
\* the 1-based position of Python index i (negative counts from the end)
PyPos(s, i) == IF i < 0 THEN Len(s) + i + 1 ELSE i + 1
\* list.insert(i, x): the index is clamped into 0..len(s), never an error
PyInsert(s, i, x) ==
    LET k == IF i < 0 THEN Max2(0, Len(s) + i) ELSE Min2(i, Len(s))
    IN SubSeq(s, 1, k) \o <<x>> \o SubSeq(s, k + 1, Len(s))
\* s[lo:hi] = items, for 0 <= lo <= hi <= len(s)
PySetSlice(s, lo, hi, items) ==
    SubSeq(s, 1, lo) \o items \o SubSeq(s, hi + 1, Len(s))
\* n copies of x
Repeat(x, n) == [i \in 1..n |-> x]

(***************************************************************************)
(* Names: a record [items, built, rev].  built = FALSE is _reverse = None; *)
(* rev is the dict _reverse, a function from the names it holds to         *)
(* positions.                                                              *)
(***************************************************************************)
EmptyDict == [s \in {} |-> 0]

\* Names.__init__: the strings of the iterable, no reverse index yet
NamesInit(items) == [items |-> items, built |-> FALSE, rev |-> EmptyDict]

\* the loop of _populate_reverse_index from position i (1-based) on
RECURSIVE RevLoop(_, _, _)
RevLoop(items, i, revmap) ==
    IF i > Len(items) THEN revmap
    ELSE RevLoop(items, i + 1,
                 IF items[i] \in DOMAIN revmap THEN revmap
                 ELSE (items[i] :> (i - 1)) @@ revmap)

populate_reverse_index(n) ==
    IF n.built THEN n
    ELSE [n EXCEPT !.built = TRUE, !.rev = RevLoop(n.items, 1, EmptyDict)]

wipe_reverse_index(n) == [n EXCEPT !.built = FALSE, !.rev = EmptyDict]

\* Names.map: the Names object after the call (the index is built) ...
NamesMapState(n) == populate_reverse_index(n)
\* ... and the value returned
NamesMap(n, name) ==
    LET r == populate_reverse_index(n).rev
    IN IF name \in DOMAIN r THEN r[name] ELSE -1

\* Names.append
NamesAppend(n, name) ==
    [n EXCEPT !.rev = IF n.built /\ name \notin DOMAIN n.rev
                      THEN (name :> Len(n.items)) @@ n.rev
                      ELSE n.rev,
              !.items = Append(n.items, name)]

\* Names.insert
NamesInsert(n, index, name) ==
    [wipe_reverse_index(n) EXCEPT !.items = PyInsert(n.items, index, name)]

\* Names.__setitem__ with an integer index (valid: the caller checks)
NamesSetItem(n, index, item) ==
    [wipe_reverse_index(n) EXCEPT !.items[PyPos(n.items, index)] = item]

\* Names.__setitem__ with a slice lo:hi
NamesSetSlice(n, lo, hi, items) ==
    [wipe_reverse_index(n) EXCEPT !.items = PySetSlice(n.items, lo, hi, items)]

\* the loop of Names.extend when the reverse index is built: element k
\* (1-based; enumerate's i is k - 1) is entered at i + len(self), where
\* len(self) is the length at that iteration, and then appended
RECURSIVE ExtendLoop(_, _, _)
ExtendLoop(n, names, k) ==
    IF k > Len(names) THEN n
    ELSE LET nm == names[k]
             n1 == IF nm \notin DOMAIN n.rev
                   THEN [n EXCEPT !.rev = (nm :> ((k - 1) + Len(n.items))) @@ n.rev]
                   ELSE n
         IN ExtendLoop(NamesAppend(n1, nm), names, k + 1)

\* Names.extend
NamesExtend(n, names) ==
    IF n.built THEN ExtendLoop(n, names, 1)
    ELSE [n EXCEPT !.items = n.items \o names]

\* Names.copy
NamesCopy(n) == NamesInit(n.items)

(***************************************************************************)
(* A Names object on its own: object 1 of the Names heap.                  *)
(***************************************************************************)
\* subscripts and keys: an integer, a string, a list of integers or of strings
NoKey == [k |-> "none", i |-> 0, s |-> "", is |-> <<>>, ss |-> <<>>]
IntKey(i) == [NoKey EXCEPT !.k = "int", !.i = i]
StrKey(s) == [NoKey EXCEPT !.k = "str", !.s = s]
IntsKey(is) == [NoKey EXCEPT !.k = "ints", !.is = is]
StrsKey(ss) == [NoKey EXCEPT !.k = "strs", !.ss = ss]

\* the argument of extend / assign_sequence: a plain list, or a NamedList
\* with or without names
NoOther == [kind |-> "none", data |-> <<>>, named |-> FALSE, names |-> <<>>]
PlainList(data) == [NoOther EXCEPT !.kind = "list", !.data = data]
OtherNamedList(data, names) ==
    [kind |-> "NamedList", data |-> data, named |-> TRUE, names |-> names]
OtherUnnamedList(data) == [NoOther EXCEPT !.kind = "NamedList", !.data = data]

\* the record of the latest call: the method, its receiver and arguments,
\* the object returned (0: none), the exception raised ("none": returned
\* normally) and the value returned by get_value
NoCall ==
    [op |-> "none", self |-> 0, out |-> 0, err |-> "none", ret |-> 0,
     ip |-> FALSE, key |-> NoKey, val |-> 0, vals |-> <<>>, other |-> NoOther]

InitNames ==
    /\ objs = <<>>
    /\ lists = <<>>
    /\ factors = <<>>
    /\ arrays = <<>>
    /\ \E items \in SeqsOf(Strs, 0, MaxArg) : nams = <<NamesInit(items)>>
    /\ last = NoCall
    /\ steps = 0

NamesFrame == UNCHANGED <<objs, lists, factors, arrays, last, steps>>

N_map ==
    /\ nams' = <<NamesMapState(nams[1])>>
    /\ NamesFrame

N_setitem ==
    \E i \in -MaxLen..(MaxLen - 1), s \in Strs :
        /\ PyValidIndex(nams[1].items, i)
        /\ nams' = <<NamesSetItem(nams[1], i, s)>>
        /\ NamesFrame

N_setslice ==
    \E lo \in 0..MaxLen, hi \in 0..MaxLen, items \in SeqsOf(Strs, 0, MaxArg) :
        /\ lo <= hi /\ hi <= Len(nams[1].items)
        /\ Len(nams[1].items) - (hi - lo) + Len(items) <= MaxLen
        /\ nams' = <<NamesSetSlice(nams[1], lo, hi, items)>>
        /\ NamesFrame

N_insert ==
    \E i \in -1..MaxLen, s \in Strs :
        /\ Len(nams[1].items) < MaxLen
        /\ nams' = <<NamesInsert(nams[1], i, s)>>
        /\ NamesFrame

N_append ==
    \E s \in Strs :
        /\ Len(nams[1].items) < MaxLen
        /\ nams' = <<NamesAppend(nams[1], s)>>
        /\ NamesFrame

N_extend ==
    \E items \in SeqsOf(Strs, 0, MaxArg) :
        /\ Len(nams[1].items) + Len(items) <= MaxLen
        /\ nams' = <<NamesExtend(nams[1], items)>>
        /\ NamesFrame

NextNames ==
    \/ N_map
    \/ N_setitem
    \/ N_setslice
    \/ N_insert
    \/ N_append
    \/ N_extend

SpecNames == InitNames /\ [][NextNames]_vars

\* the position of the first occurrence of s in items, -1 when there is none
FirstIndex(items, s) ==
    IF \E i \in 1..Len(items) : items[i] = s
    THEN (CHOOSE i \in 1..Len(items) :
              items[i] = s /\ \A j \in 1..(i - 1) : items[j] # s) - 1
    ELSE -1

\* C1: after any sequence of item/slice assignment, insert, append, extend
\* and map calls, map(s) is the position of the first occurrence of s in the
\* current contents, and -1 exactly when s does not occur.
C1_MapIsFirstOccurrence ==
    \A s \in Strs : NamesMap(nams[1], s) = FirstIndex(nams[1].items, s)


(***************************************************************************)
(* NamedList.  A heap h is a record [objs, lists, nams]:                   *)
(*   objs[o]  = [data, names, parent, via]: _data and _names hold the      *)
(*              identity of a data list and of a Names object (names = 0   *)
(*              is None); parent and via record the call that made the     *)
(*              object (parent = 0: a constructor);                        *)
(*   lists[d] = the elements of data list d;                               *)
(*   nams[n]  = Names object n.                                            *)
(* A method is an operator from the heap and its arguments to a result     *)
(* [h, out, err, ret]: the heap after the call, the object returned,       *)
(* the exception raised and the value returned.                            *)
(***************************************************************************)
Heap == [objs |-> objs, lists |-> lists, nams |-> nams]

Result(h, out, err, ret) == [h |-> h, out |-> out, err |-> err, ret |-> ret]
Returns(h, out) == Result(h, out, "none", 0)
Raises(h, err) == Result(h, 0, err, 0)

DataOf(h, o) == h.lists[h.objs[o].data]
HasNames(h, o) == h.objs[o].names # 0
NamesOf(h, o) == h.nams[h.objs[o].names]

\* a new data list, Names object or NamedList object: its identity is the
\* next free one
NewList(h, s) == [h EXCEPT !.lists = Append(@, s)]
NewNames(h, n) == [h EXCEPT !.nams = Append(@, n)]
NewObj(h, d, n, parent, via) ==
    [h EXCEPT !.objs = Append(@, [data |-> d, names |-> n,
                                  parent |-> parent, via |-> via])]

\* names.map(name) on the Names of o: the index is built as a side effect
MapOn(h, o) == [h EXCEPT !.nams[h.objs[o].names] = NamesMapState(@)]

\* _sanitize_names accepts names for a list of this length
sanitize_names_ok(names, length) == Len(names) = length

\* _name_to_position(self._names, index): [h, i, err]
name_to_position(h, o, name) ==
    IF ~HasNames(h, o) THEN [h |-> h, i |-> -1, err |-> "KeyError"]
    ELSE LET i == NamesMap(NamesOf(h, o), name)
         IN [h |-> MapOn(h, o), i |-> i,
             err |-> IF i < 0 THEN "KeyError" ELSE "none"]

\* NamedList.copy: a new object holding the same list and the same Names
NL_copy(h, o, via) ==
    LET h1 == NewObj(h, h.objs[o].data, h.objs[o].names, o, via)
    IN [h |-> h1, out |-> Len(h1.objs)]

\* the opening of set_value and set_slice: self, or self.copy() with
\* output._data = output._data.copy()
CopyWithOwnData(h, o, in_place, via) ==
    IF in_place THEN [h |-> h, out |-> o]
    ELSE LET c == NL_copy(h, o, via)
             h1 == NewList(c.h, DataOf(h, o))
         IN [h |-> [h1 EXCEPT !.objs[c.out].data = Len(h1.lists)], out |-> c.out]

\* NamedList._define_output
define_output(h, o, in_place, via) ==
    IF in_place THEN [h |-> h, out |-> o]
    ELSE LET h1 == NewList(h, DataOf(h, o))
             h2 == IF HasNames(h, o) THEN NewNames(h1, NamesCopy(NamesOf(h, o)))
                   ELSE h1
             h3 == NewObj(h2, Len(h1.lists),
                          IF HasNames(h, o) THEN Len(h2.nams) ELSE 0, o, via)
         IN [h |-> h3, out |-> Len(h3.objs)]

\* NamedList.set_data
NL_set_data(h, o, data, in_place) ==
    IF Len(data) # Len(DataOf(h, o)) THEN Raises(h, "ValueError")
    ELSE LET c == IF in_place THEN [h |-> h, out |-> o]
                  ELSE NL_copy(h, o, "set_data")
             h1 == NewList(c.h, data)
         IN Returns([h1 EXCEPT !.objs[c.out].data = Len(h1.lists)], c.out)

\* NamedList.set_names; names is a plain list of strings, or None when
\* named is FALSE
NL_set_names(h, o, named, names, in_place) ==
    LET c == IF in_place THEN [h |-> h, out |-> o]
             ELSE NL_copy(h, o, "set_names")
    IN IF ~named THEN Returns([c.h EXCEPT !.objs[c.out].names = 0], c.out)
       ELSE IF ~sanitize_names_ok(names, Len(DataOf(h, o)))
       THEN Raises(h, "ValueError")
       ELSE LET h1 == NewNames(c.h, NamesInit(names))
            IN Returns([h1 EXCEPT !.objs[c.out].names = Len(h1.nams)], c.out)

\* NamedList.get_value
NL_get_value(h, o, key) ==
    LET p == IF key.k = "str" THEN name_to_position(h, o, key.s)
             ELSE [h |-> h, i |-> key.i, err |-> "none"]
    IN IF p.err # "none" THEN Raises(p.h, p.err)
       ELSE IF ~PyValidIndex(DataOf(h, o), p.i) THEN Raises(p.h, "IndexError")
       ELSE Result(p.h, 0, "none", DataOf(h, o)[PyPos(DataOf(h, o), p.i)])

\* output._data[index] = value
StoreAt(h, out, index, value) ==
    [h EXCEPT !.lists[h.objs[out].data][PyPos(DataOf(h, out), index)] = value]

\* output._data.append(value)
AppendData(h, out, value) ==
    [h EXCEPT !.lists[h.objs[out].data] = Append(@, value)]

\* NamedList.set_value
NL_set_value(h, o, key, value, in_place) ==
    LET c == CopyWithOwnData(h, o, in_place, "set_value")
    IN IF key.k = "str"
       THEN IF HasNames(h, o)
            THEN LET i == NamesMap(NamesOf(h, o), key.s)
                     hm == MapOn(h, o)
                     cm == MapOn(c.h, o)
                 IN IF i < 0
                    THEN LET h1 == NewNames(cm, NamesAppend(NamesCopy(NamesOf(h, o)), key.s))
                             h2 == [h1 EXCEPT !.objs[c.out].names = Len(h1.nams)]
                         IN Returns(AppendData(h2, c.out, value), c.out)
                    ELSE IF ~PyValidIndex(DataOf(c.h, c.out), i)
                         THEN Raises(hm, "IndexError")
                         ELSE Returns(StoreAt(cm, c.out, i, value), c.out)
            ELSE LET blank == NamesInit(Repeat("", Len(DataOf(c.h, c.out))))
                     h1 == NewNames(c.h, NamesAppend(blank, key.s))
                     h2 == [h1 EXCEPT !.objs[c.out].names = Len(h1.nams)]
                 IN Returns(AppendData(h2, c.out, value), c.out)
       ELSE IF ~PyValidIndex(DataOf(c.h, c.out), key.i)
            THEN Raises(h, "IndexError")
            ELSE Returns(StoreAt(c.h, c.out, key.i, value), c.out)


\* normalize_subscript(sub, len(self), self._names): [h, index, scalar, err].
\* An integer counts from the end when negative and must lie in the list;
\* a string is resolved by names.map and must be present; a list is
\* resolved element by element.
RECURSIVE ResolveStrs(_, _, _, _, _)
ResolveStrs(h, o, ss, k, acc) ==
    IF k > Len(ss) THEN [h |-> h, index |-> acc, scalar |-> FALSE, err |-> "none"]
    ELSE LET p == name_to_position(h, o, ss[k])
         IN IF p.err # "none"
            THEN [h |-> p.h, index |-> <<>>, scalar |-> FALSE, err |-> p.err]
            ELSE ResolveStrs(p.h, o, ss, k + 1, Append(acc, p.i))

normalize_subscript(h, o, sub) ==
    LET length == Len(DataOf(h, o))
        wrap(i) == IF i < 0 THEN i + length ELSE i
        inside(i) == i >= -length /\ i < length
    IN CASE sub.k = "int" ->
              IF inside(sub.i)
              THEN [h |-> h, index |-> <<wrap(sub.i)>>, scalar |-> TRUE, err |-> "none"]
              ELSE [h |-> h, index |-> <<>>, scalar |-> TRUE, err |-> "IndexError"]
         [] sub.k = "str" ->
              LET p == name_to_position(h, o, sub.s)
              IN [h |-> p.h, index |-> <<p.i>>, scalar |-> TRUE, err |-> p.err]
         [] sub.k = "ints" ->
              IF \A k \in 1..Len(sub.is) : inside(sub.is[k])
              THEN [h |-> h, index |-> [k \in 1..Len(sub.is) |-> wrap(sub.is[k])],
                    scalar |-> FALSE, err |-> "none"]
              ELSE [h |-> h, index |-> <<>>, scalar |-> FALSE, err |-> "IndexError"]
         [] sub.k = "strs" -> ResolveStrs(h, o, sub.ss, 1, <<>>)

\* the loop of set_slice: output._data[j] = value[i] for i, j in
\* enumerate(index); [h, err]
RECURSIVE SliceLoop(_, _, _, _, _)
SliceLoop(h, out, index, value, k) ==
    IF k > Len(index) THEN [h |-> h, err |-> "none"]
    ELSE IF k > Len(value) \/ ~PyValidIndex(DataOf(h, out), index[k])
    THEN [h |-> h, err |-> "IndexError"]
    ELSE SliceLoop(StoreAt(h, out, index[k], value[k]), out, index, value, k + 1)

\* NamedList.set_slice; the replacement is val for a scalar subscript and
\* the list vals otherwise
NL_set_slice(h, o, sub, val, vals, in_place) ==
    LET n == normalize_subscript(h, o, sub)
    IN IF n.err # "none" THEN Raises(n.h, n.err)
       ELSE LET c == CopyWithOwnData(n.h, o, in_place, "set_slice")
            IN IF n.scalar
               THEN IF ~PyValidIndex(DataOf(c.h, c.out), n.index[1])
                    THEN Raises(n.h, "IndexError")
                    ELSE Returns(StoreAt(c.h, c.out, n.index[1], val), c.out)
               ELSE LET r == SliceLoop(c.h, c.out, n.index, vals, 1)
                    IN IF r.err = "none" THEN Returns(r.h, c.out)
                       ELSE Raises(IF in_place THEN r.h ELSE n.h, r.err)

\* NamedList.__setitem__ with a scalar key
NL_setitem(h, o, key, value) ==
    IF key.k = "str" THEN NL_set_value(h, o, key, value, TRUE)
    ELSE LET n == normalize_subscript(h, o, key)
         IN IF n.err # "none" THEN Raises(n.h, n.err)
            ELSE NL_set_value(n.h, o, IntKey(n.index[1]), value, TRUE)

\* NamedList.safe_insert
NL_safe_insert(h, o, key, value, in_place) ==
    LET c == define_output(h, o, in_place, "safe_insert")
        p == IF key.k = "str" THEN name_to_position(h, o, key.s)
             ELSE [h |-> h, i |-> key.i, err |-> "none"]
    IN IF p.err # "none" THEN Raises(p.h, p.err)
       ELSE LET h0 == IF key.k = "str" THEN MapOn(c.h, o) ELSE c.h
                h1 == [h0 EXCEPT !.lists[h0.objs[c.out].data] = PyInsert(@, p.i, value)]
                h2 == IF HasNames(h1, c.out)
                      THEN [h1 EXCEPT !.nams[h1.objs[c.out].names] =
                                          NamesInsert(@, p.i, "")]
                      ELSE h1
            IN Returns(h2, c.out)

\* NamedList.safe_append
NL_safe_append(h, o, value, in_place) ==
    LET c == define_output(h, o, in_place, "safe_append")
        h1 == AppendData(c.h, c.out, value)
        h2 == IF HasNames(h1, c.out)
              THEN [h1 EXCEPT !.nams[h1.objs[c.out].names] = NamesAppend(@, "")]
              ELSE h1
    IN Returns(h2, c.out)

\* NamedList.safe_extend.  Names.extend(None) raises TypeError: None is not
\* iterable.
NL_safe_extend(h, o, other, in_place) ==
    LET c == define_output(h, o, in_place, "safe_extend")
        previous_len == Len(DataOf(c.h, c.out))
        h1 == [c.h EXCEPT !.lists[c.h.objs[c.out].data] = @ \o other.data]
    IN IF other.kind = "NamedList"
       THEN LET h2 == IF HasNames(h1, c.out) THEN h1
                      ELSE LET hn == NewNames(h1, NamesInit(Repeat("", previous_len)))
                           IN [hn EXCEPT !.objs[c.out].names = Len(hn.nams)]
            IN IF ~other.named
               THEN Raises(IF in_place THEN h2 ELSE h, "TypeError")
               ELSE Returns([h2 EXCEPT !.nams[h2.objs[c.out].names] =
                                           NamesExtend(@, other.names)], c.out)
       ELSE IF HasNames(h1, c.out)
       THEN Returns([h1 EXCEPT !.nams[h1.objs[c.out].names] =
                                   NamesExtend(@, Repeat("", Len(other.data)))], c.out)
       ELSE Returns(h1, c.out)

\* assign_sequence on a plain list: a copy of x with other[i] written at
\* indices[i]
RECURSIVE assign_sequence_list(_, _, _, _)
assign_sequence_list(x, indices, other, k) ==
    IF k > Len(indices) THEN x
    ELSE assign_sequence_list([x EXCEPT ![indices[k] + 1] = other[k]],
                              indices, other, k + 1)

\* the names given to the result of assign_sequence on a NamedList: the
\* identity of the receiver's Names, whatever names other carries
AssignedNames(h, o, other) == h.objs[o].names

\* _assign_sequence_NamedList: the constructor checks the names' length
assign_sequence_NamedList(h, o, indices, other) ==
    LET newdata == assign_sequence_list(DataOf(h, o), indices, other.data, 1)
        h1 == NewList(h, newdata)
        nid == AssignedNames(h, o, other)
    IN IF nid # 0 /\ ~sanitize_names_ok(h.nams[nid].items, Len(newdata))
       THEN Raises(h, "ValueError")
       ELSE LET h2 == NewObj(h1, Len(h1.lists), nid, o, "assign_sequence")
            IN Returns(h2, Len(h2.objs))

\* a Python dict handed to from_dict: its items in iteration order; a key
\* is a string or an integer, s being what str(key) gives
StrDictKey(s) == [t |-> "str", s |-> s]
IntDictKey(s) == [t |-> "int", s |-> s]
DictOf(keys, values) ==
    [kind |-> "dict", data |-> values, named |-> TRUE, names |-> keys]

\* the loop of as_dict over enumerate(self._names): output[n] = self[i] for
\* a name not yet in output; self[i] raises IndexError beyond the data
RECURSIVE AsDictLoop(_, _, _, _)
AsDictLoop(h, o, k, output) ==
    LET names == NamesOf(h, o).items
        data == DataOf(h, o)
    IN IF k > Len(names) THEN Result(h, 0, "none", output)
       ELSE IF names[k] \in DOMAIN output THEN AsDictLoop(h, o, k + 1, output)
       ELSE IF k > Len(data) THEN Raises(h, "IndexError")
       ELSE AsDictLoop(h, o, k + 1, (names[k] :> data[k]) @@ output)

\* NamedList.as_dict: iterating the names of a list without names is a
\* TypeError
NL_as_dict(h, o) ==
    IF ~HasNames(h, o) THEN Raises(h, "TypeError")
    ELSE AsDictLoop(h, o, 1, EmptyDict)

\* NamedList.from_dict(x): NamedList(list(x.values()),
\* names=Names(str(y) for y in x.keys()))
NL_from_dict(h, d) ==
    LET names == [k \in 1..Len(d.names) |-> d.names[k].s]
    IN IF ~sanitize_names_ok(names, Len(d.data)) THEN Raises(h, "ValueError")
       ELSE LET h1 == NewNames(NewList(h, d.data), NamesInit(names))
                h2 == NewObj(h1, Len(h1.lists), Len(h1.nams), 0, "from_dict")
            IN Returns(h2, Len(h2.objs))


(***************************************************************************)
(* The NamedList specification: a program that constructs one NamedList    *)
(* and then makes up to MaxSteps calls, each on any object it holds (the   *)
(* first one, or one returned by an earlier call).                         *)
(***************************************************************************)
\* the names given by the caller; "" is the name of an unnamed element
GivenNames == Strs \ {""}
\* the data of the constructed list; the values written by later calls are
\* new ones
InitData == {<<>>, <<1>>, <<1, 2>>}
Written == {3}
\* replacement lists and the data of the arguments of extend
ArgData == {<<3>>, <<3, 4>>}
\* integer positions handed to the methods
Positions == -1..(MaxArg - 1)
IndexLists == SeqsOf(0..(MaxArg - 1), 1, MaxArg)
NameLists == SeqsOf(GivenNames, 1, MaxArg)
ScalarKeys == {IntKey(i) : i \in Positions} \cup {StrKey(s) : s \in Strs}
Subscripts ==
    ScalarKeys \cup {IntsKey(is) : is \in IndexLists}
    \cup {StrsKey(ss) : ss \in NameLists}
Others ==
    {PlainList(d) : d \in ArgData} \cup {OtherUnnamedList(d) : d \in ArgData}
    \cup {OtherNamedList(x[1], x[2]) :
              x \in {y \in ArgData \X NameLists : Len(y[1]) = Len(y[2])}}

Call(op, self, ip, key, val, vals, other) ==
    [NoCall EXCEPT !.op = op, !.self = self, !.ip = ip, !.key = key,
                   !.val = val, !.vals = vals, !.other = other]

\* NamedList(data, names): names is None (named = FALSE) or a list of
\* len(data) strings
Constructed(data, named, names, budget) ==
    /\ lists = <<data>>
    /\ nams = IF named THEN <<NamesInit(names)>> ELSE <<>>
    /\ objs = <<[data |-> 1, names |-> IF named THEN 1 ELSE 0,
                 parent |-> 0, via |-> "init"]>>
    /\ factors = <<>>
    /\ arrays = <<>>
    /\ last = NoCall
    /\ steps = budget

InitNL ==
    \E data \in InitData, named \in BOOLEAN, names \in SeqsOf(GivenNames, 0, MaxArg) :
        /\ sanitize_names_ok(names, Len(data))
        /\ ~named => names = Repeat("a", Len(data))
        /\ Constructed(data, named, names, MaxSteps)

\* no list of the heap outgrows the model
Fits(h) ==
    /\ \A d \in 1..Len(h.lists) : Len(h.lists[d]) <= MaxLen
    /\ \A n \in 1..Len(h.nams) : Len(h.nams[n].items) <= MaxLen

\* the call c with result r becomes the latest call; steps counts the calls
\* left
Do(r, c) ==
    /\ steps > 0
    /\ Fits(r.h)
    /\ objs' = r.h.objs
    /\ lists' = r.h.lists
    /\ nams' = r.h.nams
    /\ UNCHANGED <<factors, arrays>>
    /\ last' = [c EXCEPT !.out = r.out, !.err = r.err, !.ret = r.ret]
    /\ steps' = steps - 1

Objects == 1..Len(objs)

\* the dicts handed to from_dict: up to MaxArg items with distinct keys,
\* among them the integer 1 beside the string "1"
DictKeys == {StrDictKey("a"), StrDictKey("1"), IntDictKey("1")}
Dicts ==
    {DictOf(keys, [k \in 1..Len(keys) |-> k]) :
        keys \in {ks \in SeqsOf(DictKeys, 0, MaxArg) :
                     \A i, j \in 1..Len(ks) : ks[i] = ks[j] => i = j}}

\* the sets the arguments of the calls are drawn from
Wide ==
    [keys |-> ScalarKeys, subs |-> Subscripts, lists |-> ArgData,
     names |-> NameLists, others |-> Others, indices |-> IndexLists,
     dicts |-> Dicts]

copy ==
    \E o \in Objects :
        LET c == NL_copy(Heap, o, "copy")
        IN Do(Returns(c.h, c.out), Call("copy", o, FALSE, NoKey, 0, <<>>, NoOther))

set_data(D) ==
    \E o \in Objects, data \in D.lists, ip \in BOOLEAN :
        Do(NL_set_data(Heap, o, data, ip),
           Call("set_data", o, ip, NoKey, 0, data, NoOther))

set_names(D) ==
    \E o \in Objects, named \in BOOLEAN, names \in D.names, ip \in BOOLEAN :
        /\ ~named => names = CHOOSE n \in D.names : TRUE
        /\ Do(NL_set_names(Heap, o, named, names, ip),
              Call("set_names", o, ip, IF named THEN StrsKey(names) ELSE NoKey,
                   0, <<>>, NoOther))

get_value(D) ==
    \E o \in Objects, key \in D.keys :
        Do(NL_get_value(Heap, o, key),
           Call("get_value", o, FALSE, key, 0, <<>>, NoOther))

set_value(D) ==
    \E o \in Objects, key \in D.keys, v \in Written, ip \in BOOLEAN :
        Do(NL_set_value(Heap, o, key, v, ip),
           Call("set_value", o, ip, key, v, <<>>, NoOther))

set_slice(D) ==
    \E o \in Objects, sub \in D.subs, v \in Written, vs \in D.lists,
       ip \in BOOLEAN :
        /\ sub.k \in {"int", "str"} => vs = CHOOSE l \in D.lists : TRUE
        /\ Do(NL_set_slice(Heap, o, sub, v, vs, ip),
              Call("set_slice", o, ip, sub,
                   IF sub.k \in {"int", "str"} THEN v ELSE 0,
                   IF sub.k \in {"int", "str"} THEN <<>> ELSE vs, NoOther))

setitem(D) ==
    \E o \in Objects, key \in D.keys, v \in Written :
        Do(NL_setitem(Heap, o, key, v),
           Call("setitem", o, TRUE, key, v, <<>>, NoOther))

safe_insert(D) ==
    \E o \in Objects, key \in D.keys, v \in Written, ip \in BOOLEAN :
        Do(NL_safe_insert(Heap, o, key, v, ip),
           Call("safe_insert", o, ip, key, v, <<>>, NoOther))

safe_append ==
    \E o \in Objects, v \in Written, ip \in BOOLEAN :
        Do(NL_safe_append(Heap, o, v, ip),
           Call("safe_append", o, ip, NoKey, v, <<>>, NoOther))

safe_extend(D) ==
    \E o \in Objects, other \in D.others, ip \in BOOLEAN :
        Do(NL_safe_extend(Heap, o, other, ip),
           Call("safe_extend", o, ip, NoKey, 0, <<>>, other))

\* assign_sequence(x, indices, other): indices are positions of x, one per
\* element of other
assign_sequence(D) ==
    \E o \in Objects, indices \in D.indices, other \in D.others :
        /\ Len(indices) = Len(other.data)
        /\ \A k \in 1..Len(indices) : indices[k] < Len(DataOf(Heap, o))
        /\ Do(assign_sequence_NamedList(Heap, o, indices, other),
              Call("assign_sequence", o, FALSE, IntsKey(indices), 0, <<>>, other))

as_dict ==
    \E o \in Objects :
        Do(NL_as_dict(Heap, o), Call("as_dict", o, FALSE, NoKey, 0, <<>>, NoOther))

from_dict(D) ==
    /\ steps > 0
    /\ \E d \in D.dicts :
          Do(NL_from_dict(Heap, d), Call("from_dict", 0, FALSE, NoKey, 0, <<>>, d))

NextNL ==
    \/ copy
    \/ set_data(Wide)
    \/ set_names(Wide)
    \/ get_value(Wide)
    \/ set_value(Wide)
    \/ set_slice(Wide)
    \/ setitem(Wide)
    \/ safe_insert(Wide)
    \/ safe_append
    \/ safe_extend(Wide)
    \/ assign_sequence(Wide)
    \/ as_dict
    \/ from_dict(Wide)

SpecNL == InitNL /\ [][NextNL]_vars

(***************************************************************************)
(* The same program making up to DeepSteps calls, with the arguments of    *)
(* the calls drawn from smaller sets.                                      *)
(***************************************************************************)
Deep ==
    [keys |-> {IntKey(0), StrKey("b")},
     subs |-> {IntKey(0), StrKey("b"), IntsKey(<<0>>), StrsKey(<<"b">>)},
     lists |-> {<<3>>},
     names |-> {<<"b">>, <<"a", "b">>},
     others |-> {PlainList(<<3>>), OtherNamedList(<<3>>, <<"b">>),
                 OtherNamedList(<<3, 4>>, <<"a", "b">>),
                 OtherNamedList(<<3, 4, 5>>, <<"a", "b", "b">>)},
     indices |-> {<<0>>},
     dicts |-> {DictOf(<<StrDictKey("a"), StrDictKey("1")>>, <<1, 2>>)}]

InitNLDeep ==
    \E data \in {<<>>, <<1>>}, named \in BOOLEAN, names \in {<<>>, <<"a">>} :
        /\ sanitize_names_ok(names, Len(data))
        /\ Constructed(data, named, names, DeepSteps)

NextNLDeep ==
    \/ copy
    \/ set_data(Deep)
    \/ set_names(Deep)
    \/ get_value(Deep)
    \/ set_value(Deep)
    \/ set_slice(Deep)
    \/ setitem(Deep)
    \/ safe_insert(Deep)
    \/ safe_append
    \/ safe_extend(Deep)
    \/ assign_sequence(Deep)
    \/ as_dict
    \/ from_dict(Deep)

SpecNLDeep == InitNLDeep /\ [][NextNLDeep]_vars


(***************************************************************************)
(* Properties of NamedList.                                                *)
(***************************************************************************)
\* what a caller sees of object o: its data, whether it has names, and them
Contents(h, o) ==
    [data |-> DataOf(h, o), named |-> HasNames(h, o),
     names |-> IF HasNames(h, o) THEN NamesOf(h, o).items ELSE <<>>]

\* the heap after the step
HeapNext == [objs |-> objs', lists |-> lists', nams |-> nams']

Mutators ==
    {"set_value", "set_slice", "safe_insert", "safe_append", "safe_extend",
     "set_names", "set_data"}

\* C2: after any sequence of NamedList operations, every NamedList whose
\* names are present has as many names as data elements.
C2_NamesAsLongAsData ==
    \A o \in Objects :
        HasNames(Heap, o) => Len(NamesOf(Heap, o).items) = Len(DataOf(Heap, o))

\* C3: a mutator called with in_place = False leaves the receiver's data
\* and names as they were, and they stay so under any later in-place
\* mutation of the returned object; with in_place = True the receiver
\* itself is returned.
C3_NotInPlaceLeavesReceiver ==
    [][/\ (last'.op \in Mutators /\ ~last'.ip)
             => Contents(HeapNext, last'.self) = Contents(Heap, last'.self)
       /\ (last'.op \in Mutators /\ last'.ip /\ last'.err = "none")
             => last'.out = last'.self
       /\ (/\ last'.op \in Mutators \cup {"setitem"}
           /\ last'.ip
           /\ objs[last'.self].via \in Mutators)
             => Contents(HeapNext, objs[last'.self].parent)
                   = Contents(Heap, objs[last'.self].parent)]_vars

\* C4: an in-place modification of the object returned by copy() leaves the
\* data and names of the original as they were.
C4_CopyIsIndependent ==
    [][(/\ last'.op \in Mutators \cup {"setitem"}
        /\ last'.ip
        /\ objs[last'.self].via = "copy")
          => Contents(HeapNext, objs[last'.self].parent)
                = Contents(Heap, objs[last'.self].parent)]_vars


\* name occurs among the names of o
NamePresent(h, o, name) ==
    HasNames(h, o) /\ \E i \in 1..Len(NamesOf(h, o).items) : NamesOf(h, o).items[i] = name

\* the position of the first element of o named name
FirstNamed(h, o, name) == FirstIndex(NamesOf(h, o).items, name)

\* s with v at Python position p (p < len(s))
ReplacedAt(s, p, v) == [k \in 1..Len(s) |-> IF k = p + 1 THEN v ELSE s[k]]

\* the names of o, or one empty string per element when it has none
NamesOrBlank(h, o) ==
    IF HasNames(h, o) THEN NamesOf(h, o).items ELSE Repeat("", Len(DataOf(h, o)))

\* C5: set_value(name, v) and x[name] = v never raise for a string name; an
\* absent name appends v with that name (a list without names gets
\* empty-string names for its elements), a present name overwrites only the
\* value at the first position bearing it.
C5_SetValueByName ==
    [][(last'.op \in {"set_value", "setitem"} /\ last'.key.k = "str")
          => LET o == last'.self
                 name == last'.key.s
                 data == DataOf(Heap, o)
             IN /\ last'.err = "none"
                /\ Contents(HeapNext, last'.out) =
                     IF NamePresent(Heap, o, name)
                     THEN [data |-> ReplacedAt(data, FirstNamed(Heap, o, name), last'.val),
                           named |-> TRUE, names |-> NamesOf(Heap, o).items]
                     ELSE [data |-> Append(data, last'.val), named |-> TRUE,
                           names |-> Append(NamesOrBlank(Heap, o), name)]
                /\ NamePresent(Heap, o, name) => FirstNamed(Heap, o, name) < Len(data)]_vars

\* the positions a subscript targets: integers count from the end when
\* negative, names stand for their first occurrence
TargetOf(h, o, sub) ==
    LET wrap(i) == IF i < 0 THEN i + Len(DataOf(h, o)) ELSE i
    IN CASE sub.k = "int" -> <<wrap(sub.i)>>
         [] sub.k = "str" -> <<FirstNamed(h, o, sub.s)>>
         [] sub.k = "ints" -> [k \in 1..Len(sub.is) |-> wrap(sub.is[k])]
         [] sub.k = "strs" -> [k \in 1..Len(sub.ss) |-> FirstNamed(h, o, sub.ss[k])]

\* the subscript holds a name that o does not have
AbsentName(h, o, sub) ==
    \/ sub.k = "str" /\ ~NamePresent(h, o, sub.s)
    \/ sub.k = "strs" /\ \E k \in 1..Len(sub.ss) : ~NamePresent(h, o, sub.ss[k])

\* C6: set_slice with a name that is not present raises KeyError and
\* leaves the list as it was; when it succeeds the length and the names
\* are unchanged and exactly the targeted positions are replaced.
C6_SetSliceTargetsExisting ==
    [][last'.op = "set_slice"
          => LET o == last'.self
                 sub == last'.key
                 data == DataOf(Heap, o)
                 after == DataOf(HeapNext, last'.out)
                 target == TargetOf(Heap, o, sub)
                 value == IF sub.k \in {"int", "str"} THEN <<last'.val>> ELSE last'.vals
                 hit(p) == {k \in 1..Len(target) : target[k] = p - 1}
             IN /\ AbsentName(Heap, o, sub)
                     => /\ last'.err = "KeyError"
                        /\ Contents(HeapNext, o) = Contents(Heap, o)
                /\ last'.err = "none"
                     => /\ Len(after) = Len(data)
                        /\ Contents(HeapNext, last'.out).names = Contents(Heap, o).names
                        /\ \A p \in 1..Len(data) :
                              IF hit(p) = {} THEN after[p] = data[p]
                              ELSE \E k \in hit(p) :
                                      /\ after[p] = value[k]
                                      /\ \A j \in hit(p) : j <= k]_vars

\* C7: get_value(name) returns the value at the first position named name,
\* the same as the value at position get_names().map(name); it raises
\* KeyError when the name is absent or the list has no names, and it never
\* modifies the list.
C7_GetValueByName ==
    [][(last'.op = "get_value" /\ last'.key.k = "str")
          => LET o == last'.self
                 name == last'.key.s
                 data == DataOf(Heap, o)
             IN /\ \A x \in Objects : Contents(HeapNext, x) = Contents(Heap, x)
                /\ NamePresent(Heap, o, name)
                     => /\ last'.err = "none"
                        /\ FirstNamed(Heap, o, name) < Len(data)
                        /\ last'.ret = data[FirstNamed(Heap, o, name) + 1]
                        /\ last'.ret = data[NamesMap(NamesOf(Heap, o), name) + 1]
                /\ ~NamePresent(Heap, o, name) => last'.err = "KeyError"]_vars

\* x with other[k] written at indices[k], in order
RECURSIVE WrittenAt(_, _, _, _)
WrittenAt(x, indices, other, k) ==
    IF k > Len(indices) THEN x
    ELSE WrittenAt(ReplacedAt(x, indices[k], other[k]), indices, other, k + 1)

\* C8: assign_sequence(x, indices, values) returns a NamedList with exactly
\* x's names, whether or not values carries names; only the values at
\* indices change, and x is not modified.
C8_AssignKeepsNames ==
    [][last'.op = "assign_sequence"
          => LET o == last'.self
             IN /\ last'.err = "none"
                /\ Contents(HeapNext, last'.out) =
                     [Contents(Heap, o) EXCEPT
                        !.data = WrittenAt(@, last'.key.is, last'.other.data, 1)]
                /\ Contents(HeapNext, o) = Contents(Heap, o)]_vars

\* C9: insert places the value before the given position (for a name,
\* before the first position bearing it), names it "" when the list has
\* names, keeps the other elements and names in order, and raises KeyError
\* without changing the list when the name is absent.
C9_InsertBeforePosition ==
    [][last'.op = "safe_insert"
          => LET o == last'.self
                 key == last'.key
                 absent == key.k = "str" /\ ~NamePresent(Heap, o, key.s)
                 at == IF key.k = "str" THEN FirstNamed(Heap, o, key.s) ELSE key.i
             IN /\ absent => /\ last'.err = "KeyError"
                             /\ Contents(HeapNext, o) = Contents(Heap, o)
                /\ ~absent
                     => /\ last'.err = "none"
                        /\ Contents(HeapNext, last'.out) =
                             [data |-> PyInsert(DataOf(Heap, o), at, last'.val),
                              named |-> HasNames(Heap, o),
                              names |-> IF HasNames(Heap, o)
                                        THEN PyInsert(NamesOf(Heap, o).items, at, "")
                                        ELSE <<>>]]_vars

\* C10: extend(other) appends other's elements in order; they take other's
\* names when other is a NamedList with names and empty-string names
\* otherwise (also when other is a NamedList without names); a receiver
\* without names gets empty-string names for its elements when other has
\* names; existing elements and names are unchanged.
C10_ExtendCarriesNames ==
    [][last'.op = "safe_extend"
          => LET o == last'.self
                 other == last'.other
             IN /\ last'.err = "none"
                /\ Contents(HeapNext, last'.out) =
                     [data |-> DataOf(Heap, o) \o other.data,
                      named |-> HasNames(Heap, o) \/ other.named,
                      names |-> IF other.named
                                THEN NamesOrBlank(Heap, o) \o other.names
                                ELSE IF HasNames(Heap, o)
                                THEN NamesOf(Heap, o).items \o Repeat("", Len(other.data))
                                ELSE <<>>]]_vars

\* the items of a dict as a mapping from str(key) to value
RECURSIVE DictItems(_, _)
DictItems(d, k) ==
    IF k = 0 THEN EmptyDict
    ELSE (d.names[k].s :> d.data[k]) @@ DictItems(d, k - 1)

\* what the latest call must have done when it is as_dict or from_dict
DictCallIsRight ==
    /\ (last'.op = "as_dict" /\ HasNames(Heap, last'.self))
         => LET names == NamesOf(Heap, last'.self).items
                data == DataOf(Heap, last'.self)
            IN /\ last'.err = "none"
               /\ DOMAIN last'.ret = {names[k] : k \in 1..Len(names)}
               /\ \A n \in DOMAIN last'.ret :
                     /\ FirstIndex(names, n) < Len(data)
                     /\ last'.ret[n] = data[FirstIndex(names, n) + 1]
    /\ last'.op = "from_dict"
         => LET d == last'.other
            IN /\ last'.err = "none"
               /\ Contents(HeapNext, last'.out) =
                     [data |-> d.data, named |-> TRUE,
                      names |-> [k \in 1..Len(d.names) |-> d.names[k].s]]
               /\ (\A k \in 1..Len(d.names) : d.names[k].t = "str")
                     => NL_as_dict(HeapNext, last'.out) =
                           Result(HeapNext, 0, "none", DictItems(d, Len(d.data)))

\* C11: as_dict() of a list with names maps every distinct name to the
\* value at the first position bearing it; from_dict(d) has the stringified
\* keys of d as names, in iteration order, and d's values in the same
\* order, so from_dict(d).as_dict() is d when d's keys are distinct strings.
C11_DictRoundTrip == [][DictCallIsRight]_vars

(***************************************************************************)
(* match (src/src/biocutils/match.py).  A value is a string or None; a     *)
(* sequence handed to match is a plain list of values or a Factor, given   *)
(* by its codes and levels.  The result is a NumPy array of the chosen or  *)
(* default dtype.                                                          *)
(***************************************************************************)
\* Python's None among strings
PyNone == "<None>"

\* the argument x or targets of match
PlainSeq(items) == [kind |-> "list", items |-> items, codes |-> <<>>, levels |-> <<>>]
FactorArg(codes, levels) ==
    [kind |-> "Factor", items |-> <<>>, codes |-> codes, levels |-> levels]
\* len(x)
LenOf(a) == IF a.kind = "Factor" THEN Len(a.codes) ELSE Len(a.items)

\* is_missing_scalar: None is missing
is_missing_scalar(v) == v = PyNone

\* numpy.min_scalar_type(v) for -128 <= v <= 255: the smallest unsigned
\* type for v >= 0, the smallest signed type below
min_scalar_type(v) == IF v >= 0 THEN "uint8" ELSE "int8"
\* numpy.issubdtype(dtype, numpy.unsignedinteger)
IsUnsigned(dtype) == dtype = "uint8"

\* indices[i] = v on an array of this dtype: [err, v].  A negative value
\* does not fit an unsigned type: NumPy 2 raises OverflowError, older
\* builds wrap it around (wraps)
StoreAs(dtype, v, wraps) ==
    IF IsUnsigned(dtype) /\ v < 0
    THEN IF wraps THEN [err |-> "none", v |-> 256 + v]
         ELSE [err |-> "OverflowError", v |-> 0]
    ELSE [err |-> "none", v |-> v]

\* MatchIndex.__init__, targets a Factor: target_index[code] = i over
\* enumerate(codes), -1 standing for None; [err, index]
RECURSIVE TargetIndexLoop(_, _, _, _)
TargetIndexLoop(codes, first_tie, i, target_index) ==
    IF i > Len(codes) THEN [err |-> "none", index |-> target_index]
    ELSE LET code == codes[i]
         IN IF code < 0 THEN TargetIndexLoop(codes, first_tie, i + 1, target_index)
            ELSE IF code >= Len(target_index) THEN [err |-> "IndexError", index |-> target_index]
            ELSE IF ~first_tie \/ target_index[code + 1] = -1
            THEN TargetIndexLoop(codes, first_tie, i + 1,
                                 [target_index EXCEPT ![code + 1] = i - 1])
            ELSE TargetIndexLoop(codes, first_tie, i + 1, target_index)

\* MatchIndex.__init__, targets a Factor: mapping[lev] = target_index[i]
\* for the levels that have a position
RECURSIVE LevelMapLoop(_, _, _, _)
LevelMapLoop(levels, target_index, i, mapping) ==
    IF i > Len(levels) THEN mapping
    ELSE LevelMapLoop(levels, target_index, i + 1,
                      IF target_index[i] # -1
                      THEN (levels[i] :> target_index[i]) @@ mapping
                      ELSE mapping)

\* MatchIndex.__init__, targets a plain sequence: mapping[val] = i over
\* enumerate(targets), missing values skipped
RECURSIVE TargetMapLoop(_, _, _, _)
TargetMapLoop(targets, first_tie, i, mapping) ==
    IF i > Len(targets) THEN mapping
    ELSE LET val == targets[i]
         IN TargetMapLoop(targets, first_tie, i + 1,
                          IF ~is_missing_scalar(val)
                             /\ (~first_tie \/ val \notin DOMAIN mapping)
                          THEN (val :> (i - 1)) @@ mapping
                          ELSE mapping)

\* MatchIndex.__init__: [err, map, dtype, fail_missing]; dtype and
\* fail_missing are "default" when the caller leaves them None
MatchIndexInit(targets, duplicate_method, dtype, fail_missing) ==
    LET first_tie == duplicate_method = "first" \/ duplicate_method = "any"
        t == IF targets.kind = "Factor"
             THEN TargetIndexLoop(targets.codes, first_tie, 1,
                                  Repeat(-1, Len(targets.levels)))
             ELSE [err |-> "none", index |-> <<>>]
        mapping == IF targets.kind = "Factor"
                   THEN LevelMapLoop(targets.levels, t.index, 1, EmptyDict)
                   ELSE TargetMapLoop(targets.items, first_tie, 1, EmptyDict)
        dt == IF dtype = "default" THEN min_scalar_type(-LenOf(targets)) ELSE dtype
        fm == IF fail_missing = "default" THEN IsUnsigned(dt) ELSE fail_missing = "true"
    IN IF t.err # "none"
       THEN [err |-> t.err, map |-> EmptyDict, dtype |-> dt, fail_missing |-> fm]
       ELSE [err |-> "none", map |-> mapping, dtype |-> dt, fail_missing |-> fm]

\* MatchIndex.match, x a plain sequence: the two loops over enumerate(x)
RECURSIVE MatchSeqLoop(_, _, _, _, _)
MatchSeqLoop(mi, x, i, indices, wraps) ==
    IF i > Len(x) THEN [err |-> "none", ret |-> indices]
    ELSE LET y == x[i]
         IN IF mi.fail_missing /\ y \notin DOMAIN mi.map
            THEN [err |-> "ValueError", ret |-> <<>>]
            ELSE LET s == StoreAs(mi.dtype, IF y \in DOMAIN mi.map THEN mi.map[y] ELSE -1,
                                  wraps)
                 IN IF s.err # "none" THEN [err |-> s.err, ret |-> <<>>]
                    ELSE MatchSeqLoop(mi, x, i + 1, Append(indices, s.v), wraps)

\* MatchIndex.match, x a Factor: x_index[i] is the position of level i
\* or -1
XIndex(mi, levels) ==
    [i \in 1..Len(levels) |->
        IF levels[i] \in DOMAIN mi.map THEN mi.map[levels[i]] ELSE -1]

\* MatchIndex.match, x a Factor: the two loops over enumerate(codes).  The
\* message of the ValueError is built from x[i], which is None for a
\* missing code: adding None to a string is a TypeError
RECURSIVE MatchFactorLoop(_, _, _, _, _, _)
MatchFactorLoop(mi, x, x_index, i, indices, wraps) ==
    IF i > Len(x.codes) THEN [err |-> "none", ret |-> indices]
    ELSE LET code == x.codes[i]
         IN IF code >= Len(x_index) THEN [err |-> "IndexError", ret |-> <<>>]
            ELSE LET candidate == IF code >= 0 THEN x_index[code + 1] ELSE -1
                 IN IF mi.fail_missing /\ candidate < 0
                    THEN [err |-> IF code < 0 THEN "TypeError" ELSE "ValueError",
                          ret |-> <<>>]
                    ELSE LET s == StoreAs(mi.dtype, candidate, wraps)
                         IN IF s.err # "none" THEN [err |-> s.err, ret |-> <<>>]
                            ELSE MatchFactorLoop(mi, x, x_index, i + 1,
                                                 Append(indices, s.v), wraps)

\* MatchIndex.match
MatchIndexMatch(mi, x, wraps) ==
    IF x.kind = "Factor"
    THEN MatchFactorLoop(mi, x, XIndex(mi, x.levels), 1, <<>>, wraps)
    ELSE MatchSeqLoop(mi, x.items, 1, <<>>, wraps)

\* match(x, targets, duplicate_method, dtype, fail_missing): [err, ret]
match(x, targets, duplicate_method, dtype, fail_missing, wraps) ==
    LET mi == MatchIndexInit(targets, duplicate_method, dtype, fail_missing)
    IN IF mi.err # "none" THEN [err |-> mi.err, ret |-> <<>>]
       ELSE MatchIndexMatch(mi, x, wraps)
(***************************************************************************)
(* Factor (src/src/biocutils/Factor.py).                                   *)
(*   factors[f] = Factor object f: codes is the identity of its NumPy code *)
(*                array, levels its level table, lkind whether the table   *)
(*                is a NumPy array or a Python list, ordered its flag;     *)
(*   arrays[a]  = the elements of code array a.                            *)
(* Two Factors that hold the same array see each other's in-place changes. *)
(* A method is an operator from the heap and its arguments to a result     *)
(* [h, out, err, ret], as for NamedList.                                   *)
(***************************************************************************)
FHeap == [factors |-> factors, arrays |-> arrays]

CodesOf(h, f) == h.arrays[h.factors[f].codes]
LevelsOf(h, f) == h.factors[f].levels

\* a new code array, a new Factor object
NewArray(h, s) == [h EXCEPT !.arrays = Append(@, s)]
NewFactor(h, codes, levels, lkind, ordered) ==
    [h EXCEPT !.factors = Append(@, [codes |-> codes, levels |-> levels,
                                     lkind |-> lkind, ordered |-> ordered])]

\* Factor(codes, levels, ordered, validate=False) on a code array: levels
\* that are not a NumPy array are converted to one
FactorOn(h, codes, levels, ordered) ==
    LET h1 == NewFactor(h, codes, levels, "ndarray", ordered)
    IN Returns(h1, Len(h1.factors))

\* the validation of Factor.__init__: no code refers beyond the levels and
\* the levels are unique
FactorValidates(codes, levels) ==
    /\ \A i \in 1..Len(codes) : codes[i] < Len(levels)
    /\ Cardinality({levels[i] : i \in 1..Len(levels)}) = Len(levels)

\* normalize_subscript(sub, length, None) for an integer or a list of
\* integers: [index, scalar, err]
normalize_index(sub, length) ==
    LET wrap(i) == IF i < 0 THEN i + length ELSE i
        inside(i) == i >= -length /\ i < length
    IN IF sub.k = "int"
       THEN IF inside(sub.i)
            THEN [index |-> <<wrap(sub.i)>>, scalar |-> TRUE, err |-> "none"]
            ELSE [index |-> <<>>, scalar |-> TRUE, err |-> "IndexError"]
       ELSE IF \A k \in 1..Len(sub.is) : inside(sub.is[k])
            THEN [index |-> [k \in 1..Len(sub.is) |-> wrap(sub.is[k])],
                  scalar |-> FALSE, err |-> "none"]
            ELSE [index |-> <<>>, scalar |-> FALSE, err |-> "IndexError"]

\* Factor.__getitem__: the level string or None for a scalar, a new Factor
\* on the array codes[args] otherwise
F_getitem(h, f, sub) ==
    LET n == normalize_index(sub, Len(CodesOf(h, f)))
        codes == CodesOf(h, f)
        levels == LevelsOf(h, f)
    IN IF n.err # "none" THEN Raises(h, n.err)
       ELSE IF n.scalar
       THEN LET x == codes[n.index[1] + 1]
            IN IF x >= 0
               THEN IF x < Len(levels) THEN Result(h, 0, "none", levels[x + 1])
                    ELSE Raises(h, "IndexError")
               ELSE Result(h, 0, "none", PyNone)
       ELSE LET h1 == NewArray(h, [k \in 1..Len(n.index) |-> codes[n.index[k] + 1]])
            IN FactorOn(h1, Len(h1.arrays), levels, h.factors[f].ordered)

\* the first loop of replace, on array a: codes[x] = value._codes[i] for
\* i, x in enumerate(sub); value is array va when it is an array of the
\* heap (0: it is not) and vcodes otherwise; [h, err]
RECURSIVE CopyCodesLoop(_, _, _, _, _, _)
CopyCodesLoop(h, a, sub, va, vcodes, i) ==
    LET source == IF va # 0 THEN h.arrays[va] ELSE vcodes
    IN IF i > Len(sub) THEN [h |-> h, err |-> "none"]
       ELSE IF i > Len(source) THEN [h |-> h, err |-> "IndexError"]
       ELSE CopyCodesLoop([h EXCEPT !.arrays[a][sub[i] + 1] = source[i]],
                          a, sub, va, vcodes, i + 1)

\* Factor.replace(sub, value, in_place); va is the code array of value when
\* value is a Factor of the heap.  The levels are compared with (a == b)
\* .all(), which two Python lists do not have (AttributeError); when they
\* differ the levels are matched and the loop then enumerates args, a name
\* replace does not define (NameError)
F_replace(h, f, sub, value, va, in_place) ==
    LET n == normalize_index(sub, Len(CodesOf(h, f)))
        levels == LevelsOf(h, f)
        h1 == IF in_place THEN h ELSE NewArray(h, CodesOf(h, f))
        a == IF in_place THEN h.factors[f].codes ELSE Len(h1.arrays)
    IN IF n.err # "none" THEN Raises(h, n.err)
       ELSE IF Len(levels) = Len(value.levels)
               /\ h.factors[f].lkind = "list" /\ value.lkind = "list"
       THEN Raises(h, "AttributeError")
       ELSE IF levels = value.levels
       THEN LET c == CopyCodesLoop(h1, a, n.index, va, value.codes, 1)
            IN IF c.err # "none" THEN Raises(IF in_place THEN c.h ELSE h, c.err)
               ELSE IF in_place THEN Returns(c.h, f)
               ELSE FactorOn(c.h, a, levels, h.factors[f].ordered)
       ELSE LET m == match(PlainSeq(value.levels), PlainSeq(levels),
                           "first", "default", "default", FALSE)
            IN Raises(h, IF m.err # "none" THEN m.err ELSE "NameError")

\* drop_unused_levels: in_use[x] = True for the codes x >= 0
InUse(codes, i) == \E k \in 1..Len(codes) : codes[k] = i - 1
\* drop_unused_levels: the levels in use, in order
RECURSIVE UsedLevels(_, _, _)
UsedLevels(codes, levels, i) ==
    IF i > Len(levels) THEN <<>>
    ELSE (IF InUse(codes, i) THEN <<levels[i]>> ELSE <<>>)
         \o UsedLevels(codes, levels, i + 1)
\* drop_unused_levels: reindex[i] = len(new_levels) when level i is reached
\* and in use, -1 otherwise
Reindex(codes, levels) ==
    [i \in 1..Len(levels) |->
        IF InUse(codes, i) THEN Cardinality({j \in 1..(i - 1) : InUse(codes, j)})
        ELSE -1]

\* the last loop of drop_unused_levels on array a: for i, x in
\* enumerate(self._codes): if not x >= 0: new_codes[i] = reindex[x], the
\* negative x counting from the end of the Python list reindex; [h, err]
RECURSIVE DropLoop(_, _, _, _, _)
DropLoop(h, a, codes, reindex, i) ==
    IF i > Len(codes) THEN [h |-> h, err |-> "none"]
    ELSE IF codes[i] >= 0 THEN DropLoop(h, a, codes, reindex, i + 1)
    ELSE IF ~PyValidIndex(reindex, codes[i]) THEN [h |-> h, err |-> "IndexError"]
    ELSE DropLoop([h EXCEPT !.arrays[a][i] = reindex[PyPos(reindex, codes[i])]],
                  a, codes, reindex, i + 1)

\* Factor.drop_unused_levels(in_place)
F_drop_unused_levels(h, f, in_place) ==
    LET codes == CodesOf(h, f)
        levels == LevelsOf(h, f)
        h1 == IF in_place THEN h ELSE NewArray(h, codes)
        a == IF in_place THEN h.factors[f].codes ELSE Len(h1.arrays)
    IN IF \E k \in 1..Len(codes) : codes[k] >= Len(levels)
       THEN Raises(h, "IndexError")
       ELSE LET new_levels == UsedLevels(codes, levels, 1)
                d == DropLoop(h1, a, codes, Reindex(codes, levels), 1)
            IN IF d.err # "none" THEN Raises(IF in_place THEN d.h ELSE h, d.err)
               ELSE IF in_place
               THEN Returns([d.h EXCEPT !.factors[f].levels = new_levels,
                                        !.factors[f].lkind = "ndarray"], f)
               ELSE FactorOn(d.h, a, new_levels, h.factors[f].ordered)

\* the argument levels of set_levels: a single string, a Python list of
\* strings or a NumPy array of strings
ListLevels(ss) == [NoKey EXCEPT !.k = "list", !.ss = ss]
ArrayLevels(ss) == [NoKey EXCEPT !.k = "ndarray", !.ss = ss]

\* set_levels(str): [levels] followed by the other levels in order
OtherLevels(levels, name) == SelectSeq(levels, LAMBDA x : x # name)

\* set_levels: mapping[i] is the position of old level i in new_levels, or
\* -1
LevelMapping(levels, new_levels) ==
    [i \in 1..Len(levels) |->
        IF \E j \in 1..Len(new_levels) : new_levels[j] = levels[i]
        THEN (CHOOSE j \in 1..Len(new_levels) : new_levels[j] = levels[i]) - 1
        ELSE -1]

\* the loop of set_levels on array a: new_codes[i] = mapping[x] for x >= 0
\* and -1 otherwise; [h, err]
RECURSIVE SetLevelsLoop(_, _, _, _)
SetLevelsLoop(h, a, mapping, i) ==
    LET x == h.arrays[a][i]
    IN IF i > Len(h.arrays[a]) THEN [h |-> h, err |-> "none"]
       ELSE IF x >= Len(mapping) THEN [h |-> h, err |-> "IndexError"]
       ELSE SetLevelsLoop([h EXCEPT !.arrays[a][i] =
                                       IF x >= 0 THEN mapping[x + 1] ELSE -1],
                          a, mapping, i + 1)

\* Factor.set_levels(levels, in_place): _check_levels_type reads
\* levels.dtype, which a Python list does not have (AttributeError)
F_set_levels(h, f, arg, in_place) ==
    LET levels == LevelsOf(h, f)
        new_levels == IF arg.k = "str" THEN <<arg.s>> \o OtherLevels(levels, arg.s)
                      ELSE arg.ss
        h1 == IF in_place THEN h ELSE NewArray(h, CodesOf(h, f))
        a == IF in_place THEN h.factors[f].codes ELSE Len(h1.arrays)
    IN IF arg.k = "str" /\ ~\E i \in 1..Len(levels) : levels[i] = arg.s
       THEN Raises(h, "ValueError")
       ELSE IF arg.k = "list" THEN Raises(h, "AttributeError")
       ELSE IF arg.k = "ndarray"
               /\ Cardinality({arg.ss[i] : i \in 1..Len(arg.ss)}) < Len(arg.ss)
       THEN Raises(h, "ValueError")
       ELSE LET s == SetLevelsLoop(h1, a, LevelMapping(levels, new_levels), 1)
            IN IF s.err # "none" THEN Raises(IF in_place THEN s.h ELSE h, s.err)
               ELSE IF in_place
               THEN Returns([s.h EXCEPT !.factors[f].levels = new_levels,
                                        !.factors[f].lkind =
                                            IF arg.k = "str" THEN "list" ELSE "ndarray"], f)
               ELSE FactorOn(s.h, a, new_levels, h.factors[f].ordered)
(***************************************************************************)
(* The Factor specification: a program that constructs one validated      *)
(* Factor from a NumPy array of codes and then makes up to FactorSteps     *)
(* calls, each on any Factor it holds.                                     *)
(***************************************************************************)
\* number of calls in one behaviour of the Factor specification
FactorSteps == 2
\* longest code array of a constructed Factor
MaxCodes == 2

\* the level tables of the constructed Factor
InitLevels == {<<>>, <<"A">>, <<"A", "B">>}

\* Factor(codes, levels, ordered): codes a signed NumPy array that passes
\* the validation, negative codes being missing
InitFactor ==
    /\ objs = <<>>
    /\ lists = <<>>
    /\ nams = <<>>
    /\ \E levels \in InitLevels, ordered \in BOOLEAN,
          codes \in SeqsOf(-2..1, 0, MaxCodes) :
          /\ FactorValidates(codes, levels)
          /\ arrays = <<codes>>
          /\ factors = <<[codes |-> 1, levels |-> levels, lkind |-> "ndarray",
                          ordered |-> ordered]>>
    /\ last = NoCall
    /\ steps = FactorSteps

FactorObjects == 1..Len(factors)

\* the call c with result r becomes the latest call
DoFactor(r, c) ==
    /\ factors' = r.h.factors
    /\ arrays' = r.h.arrays
    /\ last' = [c EXCEPT !.out = r.out, !.err = r.err, !.ret = r.ret]
    /\ steps' = steps - 1
    /\ UNCHANGED <<objs, lists, nams>>

\* the subscripts handed to __getitem__ and to replace
GetSubscripts ==
    {IntKey(i) : i \in -1..(MaxCodes - 1)}
    \cup {IntsKey(is) : is \in SeqsOf(0..(MaxCodes - 1), 0, MaxCodes)}
ReplaceSubscripts == {IntKey(0), IntsKey(<<0>>), IntsKey(<<0, 1>>), IntsKey(<<1, 0>>)}

\* the Factors handed to replace as value: new ones, built from arrays, and
\* (obj) the Factors the program holds
NewValue(codes, levels) ==
    [codes |-> codes, levels |-> levels, lkind |-> "ndarray", obj |-> 0]
HeldValue(h, v) ==
    [codes |-> CodesOf(h, v), levels |-> LevelsOf(h, v),
     lkind |-> h.factors[v].lkind, obj |-> v]
NewValues ==
    {NewValue(<<0>>, <<"A">>), NewValue(<<-1, 0>>, <<"A">>),
     NewValue(<<1>>, <<"A", "B">>), NewValue(<<1, 0>>, <<"A", "B">>),
     NewValue(<<0, 1>>, <<"B", "C">>), NewValue(<<>>, <<>>)}

\* the levels handed to set_levels
LevelsArgs ==
    {StrKey("A"), StrKey("B"), ListLevels(<<"B", "A">>), ArrayLevels(<<"B", "A">>),
     ArrayLevels(<<"B">>), ArrayLevels(<<"A", "A">>), ArrayLevels(<<>>)}

\* Factor.__copy__: a new Factor on the code array and the levels of f
F_copy(h, f) ==
    FactorOn(h, h.factors[f].codes, LevelsOf(h, f), h.factors[f].ordered)
\* Factor.__deepcopy__: a new Factor on a deep copy of the code array and
\* of the levels
F_deepcopy(h, f) ==
    LET h1 == NewArray(h, CodesOf(h, f))
    IN FactorOn(h1, Len(h1.arrays), LevelsOf(h, f), h.factors[f].ordered)

getitem ==
    /\ steps > 0
    /\ \E f \in FactorObjects, sub \in GetSubscripts :
          DoFactor(F_getitem(FHeap, f, sub),
                   Call("getitem", f, FALSE, sub, 0, <<>>, NoOther))

replace ==
    /\ steps > 0
    /\ \E f \in FactorObjects, sub \in ReplaceSubscripts, ip \in BOOLEAN,
          value \in NewValues \cup {HeldValue(FHeap, v) : v \in FactorObjects} :
          DoFactor(F_replace(FHeap, f, sub, value,
                             IF value.obj = 0 THEN 0 ELSE factors[value.obj].codes, ip),
                   Call("replace", f, ip, sub, 0, <<>>, value))

drop_unused_levels ==
    /\ steps > 0
    /\ \E f \in FactorObjects, ip \in BOOLEAN :
          DoFactor(F_drop_unused_levels(FHeap, f, ip),
                   Call("drop_unused_levels", f, ip, NoKey, 0, <<>>, NoOther))

set_levels ==
    /\ steps > 0
    /\ \E f \in FactorObjects, arg \in LevelsArgs, ip \in BOOLEAN :
          DoFactor(F_set_levels(FHeap, f, arg, ip),
                   Call("set_levels", f, ip, arg, 0, <<>>, NoOther))

factor_copy ==
    /\ steps > 0
    /\ \E f \in FactorObjects :
          DoFactor(F_copy(FHeap, f), Call("copy", f, FALSE, NoKey, 0, <<>>, NoOther))

factor_deepcopy ==
    /\ steps > 0
    /\ \E f \in FactorObjects :
          DoFactor(F_deepcopy(FHeap, f),
                   Call("deepcopy", f, FALSE, NoKey, 0, <<>>, NoOther))

NextFactor ==
    \/ getitem
    \/ replace
    \/ drop_unused_levels
    \/ set_levels
    \/ factor_copy
    \/ factor_deepcopy

SpecFactor == InitFactor /\ [][NextFactor]_vars

(***************************************************************************)
(* Properties of Factor.                                                   *)
(***************************************************************************)
\* the heap after the step
FHeapNext == [factors |-> factors', arrays |-> arrays']

\* the level string of code x in a level table, None for a negative code
LevelOf(levels, x) == IF x < 0 THEN PyNone ELSE levels[x + 1]
\* every code is missing or a position of the levels, which are unique
ValidFactor(h, f) ==
    /\ \A i \in 1..Len(CodesOf(h, f)) : CodesOf(h, f)[i] < Len(LevelsOf(h, f))
    /\ \A i, j \in 1..Len(LevelsOf(h, f)) :
          LevelsOf(h, f)[i] = LevelsOf(h, f)[j] => i = j
\* what a caller sees of a valid Factor f: its values, levels and flag
Seen(h, f) ==
    [codes |-> CodesOf(h, f), levels |-> LevelsOf(h, f),
     ordered |-> h.factors[f].ordered]
\* the strings a valid Factor decodes to
DecodedFactor(h, f) ==
    [i \in 1..Len(CodesOf(h, f)) |-> LevelOf(LevelsOf(h, f), CodesOf(h, f)[i])]

\* C12: every Factor reached from a validated one by subsetting, replace,
\* drop_unused_levels and set_levels, in place or not, has only codes that
\* are negative or positions of its levels, and levels without duplicates.
C12_FactorStaysValid == \A f \in FactorObjects : ValidFactor(FHeap, f)
\* the levels of table levels that some code refers to, in order
ReferencedLevels(codes, levels) ==
    SelectSeq(levels,
              LAMBDA l : \E k \in 1..Len(codes) :
                            codes[k] >= 0 /\ levels[codes[k] + 1] = l)

\* C13: drop_unused_levels() of a valid Factor yields exactly the levels
\* that some code refers to, in their original order, with every element
\* decoding to the same string as before (missing stays missing) and the
\* ordered flag and the length unchanged.
C13_DropKeepsValues ==
    [][(last'.op = "drop_unused_levels" /\ ValidFactor(FHeap, last'.self))
          => LET f == last'.self
             IN /\ last'.err = "none"
                /\ ValidFactor(FHeapNext, last'.out)
                /\ LevelsOf(FHeapNext, last'.out) =
                      ReferencedLevels(CodesOf(FHeap, f), LevelsOf(FHeap, f))
                /\ DecodedFactor(FHeapNext, last'.out) = DecodedFactor(FHeap, f)
                /\ FHeapNext.factors[last'.out].ordered = FHeap.factors[f].ordered]_vars

\* C14: for a valid Factor f, f.drop_unused_levels().drop_unused_levels()
\* has the codes, levels and ordered flag of f.drop_unused_levels().
C14_DropIsIdempotent ==
    [][(/\ last.op = "drop_unused_levels" /\ ~last.ip /\ last.err = "none"
        /\ ValidFactor(FHeap, last.self)
        /\ last'.op = "drop_unused_levels" /\ ~last'.ip /\ last'.self = last.out)
          => /\ last'.err = "none"
             /\ Seen(FHeapNext, last'.out) = Seen(FHeap, last.out)]_vars

\* the position of the entry of value written last at position p of the
\* receiver (0: p is not in sub)
LastWriter(index, p) ==
    IF \E i \in 1..Len(index) : index[i] = p
    THEN Largest({i \in 1..Len(index) : index[i] = p})
    ELSE 0
\* the positions a subscript of the latest call refers to
IndexOf(sub, length) == normalize_index(sub, length).index

\* C15: replace(sub, value) with a Factor value, the receiver and value
\* valid and value holding an entry per position of sub: afterwards the
\* element at sub[i] decodes to the level string of value[i] when that is
\* one of the receiver's levels and to missing otherwise, the other
\* elements are unchanged, and so are the levels and the ordered flag,
\* whether or not value's levels equal the receiver's.
C15_ReplaceByLevel ==
    [][(/\ last'.op = "replace"
        /\ ValidFactor(FHeap, last'.self)
        /\ last'.other.obj = 0
        /\ normalize_index(last'.key, Len(CodesOf(FHeap, last'.self))).err = "none"
        /\ Len(last'.other.codes) >= Len(IndexOf(last'.key, Len(CodesOf(FHeap, last'.self)))))
          => LET f == last'.self
                 value == last'.other
                 before == DecodedFactor(FHeap, f)
                 index == IndexOf(last'.key, Len(before))
                 carried(i) ==
                     LET s == LevelOf(value.levels, value.codes[i])
                     IN IF \E j \in 1..Len(LevelsOf(FHeap, f)) : LevelsOf(FHeap, f)[j] = s
                        THEN s ELSE PyNone
             IN /\ last'.err = "none"
                /\ ValidFactor(FHeapNext, last'.out)
                /\ LevelsOf(FHeapNext, last'.out) = LevelsOf(FHeap, f)
                /\ FHeapNext.factors[last'.out].ordered = FHeap.factors[f].ordered
                /\ DecodedFactor(FHeapNext, last'.out) =
                      [p \in 1..Len(before) |->
                          IF LastWriter(index, p - 1) = 0 THEN before[p]
                          ELSE carried(LastWriter(index, p - 1))]]_vars

\* C16: an in-place replace, set_levels or drop_unused_levels either
\* applies the whole update or raises with the codes, levels and ordered
\* flag of the Factor exactly as before the call.
C16_InPlaceIsAtomic ==
    [][(/\ last'.op \in {"replace", "set_levels", "drop_unused_levels"}
        /\ last'.ip
        /\ last'.err # "none")
          => Seen(FHeapNext, last'.self) = Seen(FHeap, last'.self)]_vars

\* C17: set_levels on a valid Factor: a single name that is not a level is
\* a ValueError, otherwise the new levels are the name followed by the
\* other levels in order; a list with duplicates is a ValueError,
\* otherwise the new levels are the list; in both forms an element whose
\* level is among the new levels decodes to the same string as before and
\* every other element becomes missing.
C17_SetLevelsRemaps ==
    [][(last'.op = "set_levels" /\ ValidFactor(FHeap, last'.self))
          => LET f == last'.self
                 arg == last'.key
                 old == LevelsOf(FHeap, f)
                 before == DecodedFactor(FHeap, f)
                 refused == IF arg.k = "str"
                            THEN ~\E i \in 1..Len(old) : old[i] = arg.s
                            ELSE \E i, j \in 1..Len(arg.ss) : i # j /\ arg.ss[i] = arg.ss[j]
                 new == IF arg.k = "str" THEN <<arg.s>> \o OtherLevels(old, arg.s)
                        ELSE arg.ss
             IN /\ refused => last'.err = "ValueError"
                /\ ~refused
                     => /\ last'.err = "none"
                        /\ ValidFactor(FHeapNext, last'.out)
                        /\ LevelsOf(FHeapNext, last'.out) = new
                        /\ DecodedFactor(FHeapNext, last'.out) =
                              [p \in 1..Len(before) |->
                                  IF \E j \in 1..Len(new) : new[j] = before[p]
                                  THEN before[p] ELSE PyNone]]_vars

\* C18: subsetting a Factor by a sequence of positions returns a new Factor
\* whose i-th code is the receiver's code at the i-th position, with the
\* receiver's levels and ordered flag, and does not modify the receiver;
\* indexing by a scalar returns the level string at that code, or the
\* missing marker when the code is negative.
C18_SubsetKeepsLevels ==
    [][(/\ last'.op = "getitem"
        /\ normalize_index(last'.key, Len(CodesOf(FHeap, last'.self))).err = "none")
          => LET f == last'.self
                 codes == CodesOf(FHeap, f)
                 index == IndexOf(last'.key, Len(codes))
             IN /\ last'.err = "none"
                /\ \A g \in FactorObjects : Seen(FHeapNext, g) = Seen(FHeap, g)
                /\ last'.key.k = "int"
                     => /\ codes[index[1] + 1] < Len(LevelsOf(FHeap, f))
                        /\ last'.ret = LevelOf(LevelsOf(FHeap, f), codes[index[1] + 1])
                /\ last'.key.k = "ints"
                     => /\ last'.out \notin FactorObjects
                        /\ Seen(FHeapNext, last'.out) =
                              [codes |-> [i \in 1..Len(index) |-> codes[index[i] + 1]],
                               levels |-> LevelsOf(FHeap, f),
                               ordered |-> FHeap.factors[f].ordered]]_vars
(***************************************************************************)
(* The match specification: a program that makes one call of match.        *)
(***************************************************************************)
\* longest x handed to match
MaxX == 2
\* longest targets handed to match
MaxTargets == 3
\* most levels of a Factor handed to match
MaxLevels == 2

\* the values matched: strings and None
Values == {"A", "B"}
MaybeValues == Values \cup {PyNone}
\* level tables: strings without duplicates
LevelTables ==
    {l \in SeqsOf(Values, 0, MaxLevels) : \A i, j \in 1..Len(l) : l[i] = l[j] => i = j}
\* valid Factors of up to n elements: every code is -1 or a position of the
\* level table
FactorsUpTo(n) ==
    UNION {{FactorArg(c, l) : c \in SeqsOf(-1..(Len(l) - 1), 0, n)} : l \in LevelTables}

DuplicateMethods == {"first", "last", "any"}
Dtypes == {"default", "int8", "uint8"}
FailMissing == {"default", "true", "false"}

InitMatch ==
    /\ objs = <<>>
    /\ lists = <<>>
    /\ nams = <<>>
    /\ factors = <<>>
    /\ arrays = <<>>
    /\ last = NoCall
    /\ steps = 1

\* one call of match; the build decides what storing -1 in an unsigned
\* array does
CallMatch(x, targets, o) ==
    LET r == match(x, targets, o.duplicate_method, o.dtype, o.fail_missing, o.wraps)
    IN /\ steps' = steps - 1
       /\ last' = [op |-> "match", x |-> x, targets |-> targets,
                   duplicate_method |-> o.duplicate_method, dtype |-> o.dtype,
                   fail_missing |-> o.fail_missing, err |-> r.err, ret |-> r.ret]
       /\ UNCHANGED <<objs, lists, nams, factors, arrays>>

\* the options of a call
MatchOptions ==
    [duplicate_method : DuplicateMethods, dtype : Dtypes, fail_missing : FailMissing,
     wraps : BOOLEAN]

match_sequences ==
    /\ steps > 0
    /\ \E x \in SeqsOf(MaybeValues, 0, MaxX), t \in SeqsOf(MaybeValues, 0, MaxTargets),
          o \in MatchOptions :
          CallMatch(PlainSeq(x), PlainSeq(t), o)

match_factors ==
    /\ steps > 0
    /\ \E x \in FactorsUpTo(MaxX), t \in FactorsUpTo(MaxTargets), o \in MatchOptions :
          CallMatch(x, t, o)

match_factor_in_sequence ==
    /\ steps > 0
    /\ \E x \in FactorsUpTo(MaxX), t \in SeqsOf(MaybeValues, 0, MaxTargets),
          o \in MatchOptions :
          CallMatch(x, PlainSeq(t), o)

match_sequence_in_factor ==
    /\ steps > 0
    /\ \E x \in SeqsOf(MaybeValues, 0, MaxX), t \in FactorsUpTo(MaxTargets),
          o \in MatchOptions :
          CallMatch(PlainSeq(x), t, o)

NextMatch ==
    \/ match_sequences
    \/ match_factors
    \/ match_factor_in_sequence
    \/ match_sequence_in_factor

SpecMatch == InitMatch /\ [][NextMatch]_vars

(***************************************************************************)
(* Properties of match.                                                    *)
(***************************************************************************)
\* the values of a sequence handed to match: a Factor decodes to its level
\* strings, a negative code to None
Decoded(a) ==
    IF a.kind = "Factor"
    THEN [i \in 1..Len(a.codes) |->
             IF a.codes[i] < 0 THEN PyNone ELSE a.levels[a.codes[i] + 1]]
    ELSE a.items

\* the positions (0-based) of v in targets
PositionsOf(v, targets) == {j \in 0..(Len(targets) - 1) : targets[j + 1] = v}
\* the position match must report for v: the first or the last one, -1
\* when there is none
Expected(v, targets, duplicate_method) ==
    IF PositionsOf(v, targets) = {} THEN -1
    ELSE IF duplicate_method = "last" THEN Largest(PositionsOf(v, targets))
    ELSE Smallest(PositionsOf(v, targets))

\* C19: with fail_missing false and a signed (or default) dtype, match of
\* two plain sequences returns len(x) entries; the entry of a non-missing
\* x[i] is the smallest position of x[i] in targets for duplicate_method
\* first or any, the largest for last, and -1 when there is none; e.g.
\* match([A,C,B,D,A], [D,C,B,A]) is [3,1,2,0,3].
C19_MatchPositions ==
    /\ (/\ last.op = "match"
        /\ last.x.kind = "list" /\ last.targets.kind = "list"
        /\ last.fail_missing = "false" /\ last.dtype # "uint8")
          => /\ last.err = "none"
             /\ Len(last.ret) = Len(last.x.items)
             /\ \A i \in 1..Len(last.x.items) :
                   ~is_missing_scalar(last.x.items[i])
                      => last.ret[i] = Expected(last.x.items[i], last.targets.items,
                                                last.duplicate_method)
    /\ \A wraps \in BOOLEAN :
          match(PlainSeq(<<"A", "C", "B", "D", "A">>), PlainSeq(<<"D", "C", "B", "A">>),
                "first", "default", "default", wraps)
             = [err |-> "none", ret |-> <<3, 1, 2, 0, 3>>]

\* C20: a missing entry of x (None in a plain sequence, a negative code in
\* a Factor) yields -1 and never an error, whatever fail_missing is: when
\* every non-missing entry of x occurs in targets and the dtype is signed,
\* match returns and the entries of the missing x[i] are -1.
C20_MissingIsNotFound ==
    (/\ last.op = "match"
     /\ last.dtype = "int8"
     /\ \A i \in 1..LenOf(last.x) :
           \/ is_missing_scalar(Decoded(last.x)[i])
           \/ PositionsOf(Decoded(last.x)[i], Decoded(last.targets)) # {})
       => /\ last.err = "none"
          /\ Len(last.ret) = LenOf(last.x)
          /\ \A i \in 1..LenOf(last.x) :
                is_missing_scalar(Decoded(last.x)[i]) => last.ret[i] = -1

\* the array match must report for the plain sequence x: -1 for a missing
\* element, its position in targets (or -1) for any other
ExpectedAll(x, targets, duplicate_method) ==
    [i \in 1..Len(x) |-> IF is_missing_scalar(x[i]) THEN -1
                          ELSE Expected(x[i], targets, duplicate_method)]
\* some non-missing element of x has no equal entry in targets
SomeUnmatched(x, targets) ==
    \E i \in 1..Len(x) : ~is_missing_scalar(x[i]) /\ PositionsOf(x[i], targets) = {}
\* every element of x is non-missing and has an equal entry in targets
AllMatched(x, targets) ==
    \A i \in 1..Len(x) : ~is_missing_scalar(x[i]) /\ PositionsOf(x[i], targets) # {}

\* C21: for plain sequences, fail_missing left unspecified is true exactly
\* when dtype is unsigned and false otherwise, also when dtype is left
\* unspecified (so nothing is raised and an unmatched element gives -1);
\* with fail_missing true an unmatched non-missing element is a ValueError
\* and no array is returned; when every element is found the result is the
\* array of positions, whatever fail_missing is.
C21_FailMissingDefault ==
    (last.op = "match" /\ last.x.kind = "list" /\ last.targets.kind = "list")
       => LET x == last.x.items
              targets == last.targets.items
              positions == ExpectedAll(x, targets, last.duplicate_method)
              failing == \/ last.fail_missing = "true"
                         \/ last.fail_missing = "default" /\ last.dtype = "uint8"
          IN /\ (failing /\ SomeUnmatched(x, targets))
                   => last.err = "ValueError" /\ last.ret = <<>>
             /\ (last.fail_missing = "default" /\ last.dtype # "uint8")
                   => last.err = "none" /\ last.ret = positions
             /\ AllMatched(x, targets)
                   => last.err = "none" /\ last.ret = positions

\* the outcome of the generic path on the decoded values of the arguments
\* of the last call, for either outcome of an unsigned store of -1
GenericOutcomes ==
    {LET r == match(PlainSeq(Decoded(last.x)), PlainSeq(Decoded(last.targets)),
                    last.duplicate_method, last.dtype, last.fail_missing, wraps)
     IN [err |-> r.err, ret |-> r.ret] : wraps \in BOOLEAN}

\* C26: a match with a Factor as x, as targets or as both has, for every
\* duplicate_method and fail_missing, the outcome of the generic path on
\* the decoded values: the same array, or an error of the same type.
C26_FactorPathAgrees ==
    (last.op = "match" /\ (last.x.kind = "Factor" \/ last.targets.kind = "Factor"))
       => [err |-> last.err, ret |-> last.ret] \in GenericOutcomes

(***************************************************************************)
(* order (src/src/biocutils/order.py).  The elements of a plain sequence   *)
(* are strings ordered as Python orders them, or None; the codes of a      *)
(* Factor are integers.  The generic function is one body for both, so it  *)
(* takes the comparison of its elements as an argument: less[i][j] is      *)
(* x[i] < x[j] and sortable[i] whether x[i] can be compared at all, for    *)
(* the 1-based positions i, j.  The result is the array of 0-based         *)
(* positions, in the default dtype, which holds every position of x.       *)
(***************************************************************************)

\* the strings of the inputs, in increasing order
Alphabet == <<"A", "B", "C", "D">>
RankOf(s) == CHOOSE k \in 1..Len(Alphabet) : Alphabet[k] = s
\* str < str
StrLess(a, b) == RankOf(a) < RankOf(b)
\* None is ordered against nothing: comparing it is a TypeError
StrSortable(a) == a # PyNone
\* the comparisons of a sequence of strings and None, of a sequence of
\* integers
StrSortables(x) == [i \in 1..Len(x) |-> StrSortable(x[i])]
StrLesses(x) ==
    [i \in 1..Len(x) |->
        [j \in 1..Len(x) |->
            StrSortable(x[i]) /\ StrSortable(x[j]) /\ StrLess(x[i], x[j])]]
IntSortables(x) == [i \in 1..Len(x) |-> TRUE]
IntLesses(x) == [i \in 1..Len(x) |-> [j \in 1..Len(x) |-> x[i] < x[j]]]

\* a sort that reverses the ascending result as a whole: with reverse, an
\* element goes behind those strictly above it only
StaysBeforeReversed(decreasing, e_lt_i, i_lt_e) ==
    IF decreasing THEN i_lt_e ELSE ~i_lt_e
\* list.sort(key, reverse) is stable in both directions.  An element i that
\* comes later in the list is placed behind the element e exactly when it
\* does not sort before e: when e is not above i (ascending), when e is not
\* below i (reverse)
StaysBefore(decreasing, e_lt_i, i_lt_e) ==
    IF decreasing THEN ~e_lt_i ELSE ~i_lt_e

\* collected.sort(key=key, reverse=decreasing), with key(i) = x[i]
ListSort(collected, decreasing, less) ==
    LET sorted[n \in 0..Len(collected)] ==
            IF n = 0 THEN <<>>
            ELSE LET s == sorted[n - 1]
                     i == collected[n]
                     before == {k \in 1..Len(s) :
                                   StaysBefore(decreasing,
                                               less[s[k] + 1][i + 1],
                                               less[i + 1][s[k] + 1])}
                     m == Cardinality(before)
                 IN SubSeq(s, 1, m) \o <<i>> \o SubSeq(s, m + 1, Len(s))
    IN sorted[Len(collected)]

\* range(len(x))
RangeLen(x) == [i \in 1..Len(x) |-> i - 1]

\* order(x, force_last, decreasing) of the generic function: [err, ret];
\* force_last is used for its length and for membership only
order_object(x, force_last, decreasing, less, sortable) ==
    LET collected == IF force_last # {}
                     THEN SelectSeq(RangeLen(x), LAMBDA i : x[i + 1] \notin force_last)
                     ELSE RangeLen(x)
        forced == IF force_last # {}
                  THEN SelectSeq(RangeLen(x), LAMBDA i : x[i + 1] \in force_last)
                  ELSE <<>>
    IN IF Len(collected) >= 2 /\ \E k \in 1..Len(collected) : ~sortable[collected[k] + 1]
       THEN [err |-> "TypeError", ret |-> <<>>]
       ELSE [err |-> "none",
             ret |-> ListSort(collected, decreasing, less) \o forced]

\* _order_Factor: the levels of force_last become their codes, None
\* becomes the code -1, and the codes are ordered by the generic function
new_force_last(levels, force_last) ==
    {i \in 0..(Len(levels) - 1) : levels[i + 1] \in force_last}
       \cup (IF PyNone \in force_last THEN {-1} ELSE {})
order_Factor(x, force_last, decreasing) ==
    order_object(x.codes, new_force_last(x.levels, force_last), decreasing,
                 IntLesses(x.codes), IntSortables(x.codes))

\* order(x, force_last, decreasing): dispatch on the type of x
order(x, force_last, decreasing) ==
    IF x.kind = "Factor" THEN order_Factor(x, force_last, decreasing)
    ELSE order_object(x.items, force_last, decreasing, StrLesses(x.items),
                      StrSortables(x.items))

(***************************************************************************)
(* Calls of order on plain sequences and on valid Factors.                 *)
(***************************************************************************)

MaxOrd == 4

OrderValues == {Alphabet[k] : k \in 1..Len(Alphabet)} \cup {PyNone}
\* force_last: nothing, the default (None), None and a value, a value
ForceLasts == {{}, {PyNone}, {PyNone, "A"}, {"B"}}
\* Factors whose codes are negative or positions of the level table
OrderFactors ==
    UNION {{FactorArg(c, l) : c \in SeqsOf(-2..(Len(l) - 1), 0, MaxOrd)} : l \in LevelTables}

InitOrder ==
    /\ objs = <<>>
    /\ lists = <<>>
    /\ nams = <<>>
    /\ factors = <<>>
    /\ arrays = <<>>
    /\ last = NoCall
    /\ steps = 1

CallOrder(x, force_last, decreasing) ==
    LET r == order(x, force_last, decreasing)
    IN /\ steps' = steps - 1
       /\ last' = [op |-> "order", x |-> x, force_last |-> force_last,
                   decreasing |-> decreasing, err |-> r.err, ret |-> r.ret]
       /\ UNCHANGED <<objs, lists, nams, factors, arrays>>

order_sequence ==
    /\ steps > 0
    /\ \E x \in SeqsOf(OrderValues, 0, MaxOrd), fl \in ForceLasts, d \in BOOLEAN :
          CallOrder(PlainSeq(x), fl, d)

order_factor ==
    /\ steps > 0
    /\ \E x \in OrderFactors, fl \in ForceLasts, d \in BOOLEAN : CallOrder(x, fl, d)

NextOrder == order_sequence \/ order_factor

SpecOrder == InitOrder /\ [][NextOrder]_vars

\* ret is an ordering of n elements: every position 0..n-1 once, the
\* positions outside forced first, then those of forced in increasing order
ForcedGoLast(ret, n, forced) ==
    LET m == n - Cardinality(forced)
    IN /\ Len(ret) = n
       /\ {ret[k] : k \in 1..n} = 0..(n - 1)
       /\ \A k \in 1..m : ret[k] \notin forced
       /\ \A k \in (m + 1)..(n - 1) : ret[k] < ret[k + 1]

\* C22: order of a plain sequence returns a permutation of the positions:
\* first the elements outside force_last, sorted by value (ascending, or
\* descending with decreasing) with equal elements in their original order
\* in both directions, then the elements of force_last in their original
\* order whatever decreasing is; nothing is raised when the elements outside
\* force_last are comparable; order([D,B,D,C,A,D]) is [4,1,3,0,2,5] and
\* [0,2,5,3,1,4] with decreasing.
C22_OrderIsStable ==
    /\ order(PlainSeq(<<"D", "B", "D", "C", "A", "D">>), {PyNone}, FALSE)
          = [err |-> "none", ret |-> <<4, 1, 3, 0, 2, 5>>]
    /\ order(PlainSeq(<<"D", "B", "D", "C", "A", "D">>), {PyNone}, TRUE)
          = [err |-> "none", ret |-> <<0, 2, 5, 3, 1, 4>>]
    /\ (last.op = "order" /\ last.x.kind = "list")
          => LET x == last.x.items
                 n == Len(x)
                 forced == {i \in 0..(n - 1) : x[i + 1] \in last.force_last}
                 m == n - Cardinality(forced)
                 ret == last.ret
             IN /\ (\A i \in 0..(n - 1) : i \notin forced => x[i + 1] # PyNone)
                      => last.err = "none"
                /\ last.err = "none"
                      => /\ ForcedGoLast(ret, n, forced)
                         /\ \A k \in 1..(m - 1) :
                               LET a == x[ret[k] + 1]
                                   b == x[ret[k + 1] + 1]
                               IN IF a = b THEN ret[k] < ret[k + 1]
                                  ELSE IF last.decreasing THEN StrLess(b, a)
                                  ELSE StrLess(a, b)
\* a decreasing order with a tie among the sorted elements and two
\* elements forced last
C22_Witness ==
    /\ last.op = "order" /\ last.x.kind = "list"
    /\ last.decreasing /\ last.err = "none"
    /\ LET x == last.x.items
           forced == {i \in 1..Len(x) : x[i] \in last.force_last}
       IN /\ Cardinality(forced) = 2
          /\ \E i, j \in (1..Len(x)) \ forced : i # j /\ x[i] = x[j]
          /\ \E i \in forced : \E j \in (1..Len(x)) \ forced : i < j

\* C27: order of a Factor sorts by code value, with equal codes in their
\* original order; the elements whose level is in force_last go last, and
\* so do the missing elements (code < 0) whenever None is in force_last;
\* the elements forced last keep their original order whatever decreasing
\* is.
C27_FactorOrderByCode ==
    (last.op = "order" /\ last.x.kind = "Factor")
       => LET codes == last.x.codes
              levels == last.x.levels
              n == Len(codes)
              forced == {i \in 0..(n - 1) :
                            IF codes[i + 1] < 0 THEN PyNone \in last.force_last
                            ELSE levels[codes[i + 1] + 1] \in last.force_last}
              m == n - Cardinality(forced)
              ret == last.ret
          IN /\ last.err = "none"
             /\ ForcedGoLast(ret, n, forced)
             /\ \A k \in 1..(m - 1) :
                   LET a == codes[ret[k] + 1]
                       b == codes[ret[k + 1] + 1]
                   IN IF a = b THEN ret[k] < ret[k + 1]
                      ELSE IF last.decreasing THEN b < a ELSE a < b

(***************************************************************************)
(* duplicated (src/src/biocutils/duplicated.py).  The result is the array  *)
(* of booleans; every position of it is written once by process.           *)
(***************************************************************************)

\* the positions (0-based) in the order the loop visits them
VisitOrder(n, from_last) == [k \in 1..n |-> IF from_last THEN n - k ELSE k - 1]

\* duplicated, generic: process(i, x[i]) over the visited positions
RECURSIVE DuplicatedLoop(_, _, _, _, _, _)
DuplicatedLoop(x, visit, k, incomparables, available, output) ==
    IF k > Len(visit) THEN output
    ELSE LET i == visit[k]
             y == x[i + 1]
         IN IF y \in incomparables
            THEN DuplicatedLoop(x, visit, k + 1, incomparables, available,
                                [output EXCEPT ![i + 1] = FALSE])
            ELSE IF y \in available
            THEN DuplicatedLoop(x, visit, k + 1, incomparables, available,
                                [output EXCEPT ![i + 1] = TRUE])
            ELSE DuplicatedLoop(x, visit, k + 1, incomparables, available \cup {y},
                                [output EXCEPT ![i + 1] = FALSE])

duplicated_object(x, incomparables, from_last) ==
    [err |-> "none",
     ret |-> DuplicatedLoop(x, VisitOrder(Len(x), from_last), 1, incomparables, {},
                            [i \in 1..Len(x) |-> FALSE])]

\* _duplicated_Factor: present has one slot per level and a last one that
\* the code -1 reaches; a slot is "None" (incomparable), "False" or "True"
Present(levels, incomparables) ==
    [i \in 1..(Len(levels) + 1) |->
        IF i <= Len(levels)
        THEN (IF levels[i] \in incomparables THEN "None" ELSE "False")
        ELSE (IF PyNone \in incomparables THEN "None" ELSE "False")]

\* process(i, y) over the visited positions, y = codes[i] indexing the list
\* present as Python indexes a list
RECURSIVE DuplicatedFactorLoop(_, _, _, _, _)
DuplicatedFactorLoop(codes, visit, k, present, output) ==
    IF k > Len(visit) THEN [err |-> "none", ret |-> output]
    ELSE LET i == visit[k]
             y == codes[i + 1]
         IN IF ~PyValidIndex(present, y) THEN [err |-> "IndexError", ret |-> <<>>]
            ELSE LET tmp == present[PyPos(present, y)]
                 IN IF tmp = "None"
                    THEN DuplicatedFactorLoop(codes, visit, k + 1, present,
                                              [output EXCEPT ![i + 1] = FALSE])
                    ELSE IF tmp = "True"
                    THEN DuplicatedFactorLoop(codes, visit, k + 1, present,
                                              [output EXCEPT ![i + 1] = TRUE])
                    ELSE DuplicatedFactorLoop(
                             codes, visit, k + 1,
                             [present EXCEPT ![PyPos(present, y)] = "True"],
                             [output EXCEPT ![i + 1] = FALSE])

duplicated_Factor(x, incomparables, from_last) ==
    DuplicatedFactorLoop(x.codes, VisitOrder(Len(x.codes), from_last), 1,
                         Present(x.levels, incomparables),
                         [i \in 1..Len(x.codes) |-> FALSE])

\* duplicated(x, incomparables, from_last): dispatch on the type of x
duplicated(x, incomparables, from_last) ==
    IF x.kind = "Factor" THEN duplicated_Factor(x, incomparables, from_last)
    ELSE duplicated_object(x.items, incomparables, from_last)

MaxDup == 4

Incomparables == {{}, {PyNone}, {"A"}, {PyNone, "A"}}
DuplicatedFactors ==
    UNION {{FactorArg(c, l) : c \in SeqsOf(-2..(Len(l) - 1), 0, MaxDup)} : l \in LevelTables}

InitDuplicated ==
    /\ objs = <<>>
    /\ lists = <<>>
    /\ nams = <<>>
    /\ factors = <<>>
    /\ arrays = <<>>
    /\ last = NoCall
    /\ steps = 1

CallDuplicated(x, incomparables, from_last) ==
    LET r == duplicated(x, incomparables, from_last)
    IN /\ steps' = steps - 1
       /\ last' = [op |-> "duplicated", x |-> x, incomparables |-> incomparables,
                   from_last |-> from_last, err |-> r.err, ret |-> r.ret]
       /\ UNCHANGED <<objs, lists, nams, factors, arrays>>

duplicated_sequence ==
    /\ steps > 0
    /\ \E x \in SeqsOf(OrderValues, 0, MaxDup), inc \in Incomparables, fl \in BOOLEAN :
          CallDuplicated(PlainSeq(x), inc, fl)

duplicated_factor ==
    /\ steps > 0
    /\ \E x \in DuplicatedFactors, inc \in Incomparables, fl \in BOOLEAN :
          CallDuplicated(x, inc, fl)

NextDuplicated == duplicated_sequence \/ duplicated_factor

SpecDuplicated == InitDuplicated /\ [][NextDuplicated]_vars

\* position i (1-based) of values is a duplicate: it is comparable and an
\* equal element occurs earlier (later with from_last)
IsDuplicate(values, i, incomparables, from_last) ==
    /\ values[i] \notin incomparables
    /\ \E j \in 1..Len(values) :
          /\ values[j] = values[i]
          /\ IF from_last THEN j > i ELSE j < i

\* C23: duplicated returns one boolean per element, true at position i
\* exactly when x[i] is not in incomparables and an equal element occurs
\* earlier (later with from_last); a Factor gives the result of its decoded
\* values, a negative code being None; duplicated([1,2,1,2,3,2]) is
\* [F,F,T,T,F,T] and [T,T,F,T,F,F] with from_last (A, B, C stand for 1, 2, 3).
C23_DuplicatedMarksRepeats ==
    /\ duplicated(PlainSeq(<<"A", "B", "A", "B", "C", "B">>), {}, FALSE).ret
          = <<FALSE, FALSE, TRUE, TRUE, FALSE, TRUE>>
    /\ duplicated(PlainSeq(<<"A", "B", "A", "B", "C", "B">>), {}, TRUE).ret
          = <<TRUE, TRUE, FALSE, TRUE, FALSE, FALSE>>
    /\ last.op = "duplicated"
          => LET values == Decoded(last.x)
             IN /\ last.err = "none"
                /\ last.ret = [i \in 1..Len(values) |->
                                  IsDuplicate(values, i, last.incomparables,
                                              last.from_last)]

(***************************************************************************)
(* split (src/src/biocutils/split.py).  x is a list; get_height and subset *)
(* of a list are its length and [x[i] for i in indices].  The result is    *)
(* [err, kind, keys, groups]: the keys in order and the group of each key, *)
(* held by a dict or by a NamedList whose names are the keys.              *)
(***************************************************************************)

\* subset(x, c) of a list
subset_list(x, c) == [k \in 1..Len(c) |-> x[c[k] + 1]]

\* sorted(list(levels)) of a set of strings and None: [err, ret]
RECURSIVE SortedStrings(_)
SortedStrings(S) ==
    IF S = {} THEN <<>>
    ELSE LET least == CHOOSE s \in S : \A t \in S : ~StrLess(t, s)
         IN <<least>> \o SortedStrings(S \ {least})
sorted(S) ==
    IF Cardinality(S) >= 2 /\ PyNone \in S THEN [err |-> "TypeError", ret |-> <<>>]
    ELSE IF S = {PyNone} THEN [err |-> "none", ret |-> <<PyNone>>]
    ELSE [err |-> "none", ret |-> SortedStrings(S)]

\* the Factor f as an object of a heap of its own
FactorHeap(f) ==
    FactorOn(NewArray([factors |-> <<>>, arrays |-> <<>>], f.codes), 1, f.levels, FALSE)

\* the codes and the levels of the Factor a method returned: [err, codes,
\* levels]
ReturnedFactor(r) ==
    IF r.err # "none" THEN [err |-> r.err, codes |-> <<>>, levels |-> <<>>]
    ELSE [err |-> "none", codes |-> CodesOf(r.h, r.out),
          levels |-> LevelsOf(r.h, r.out)]
\* split, f a Factor: f = f.drop_unused_levels(): [err, codes, levels]
SplitDrop(f, drop) ==
    IF ~drop THEN [err |-> "none", codes |-> f.codes, levels |-> f.levels]
    ELSE ReturnedFactor(F_drop_unused_levels(FactorHeap(f).h, 1, FALSE))

\* split, f a Factor, len(skip) > 0: reindex holds, for a level that is
\* kept, ix = len(reindex) as it is when the level is reached
SplitReindex(levels, skip) ==
    [i \in 1..Len(levels) |-> IF levels[i] \notin skip THEN i - 1 ELSE -1]

\* split, f a Factor, after the drop d: [err, levels, indices]
SplitLevels(d, skip) ==
       IF d.err # "none" THEN [err |-> d.err, levels |-> <<>>, indices |-> <<>>]
       ELSE IF skip # {}
       THEN IF \E k \in 1..Len(d.codes) : d.codes[k] >= Len(d.levels)
            THEN [err |-> "IndexError", levels |-> <<>>, indices |-> <<>>]
            ELSE [err |-> "none",
                  levels |-> SelectSeq(d.levels, LAMBDA lev : lev \notin skip),
                  indices |-> [k \in 1..Len(d.codes) |->
                                  IF d.codes[k] >= 0
                                  THEN SplitReindex(d.levels, skip)[d.codes[k] + 1]
                                  ELSE d.codes[k]]]
       ELSE [err |-> "none", levels |-> d.levels, indices |-> d.codes]
\* split, f a Factor: [err, levels, indices]
SplitFactor(f, skip, drop) == SplitLevels(SplitDrop(f, drop), skip)

\* indices = match(f, levels)
SplitMatch(levels, m) == [err |-> m.err, levels |-> levels, indices |-> m.ret]
\* split, f a plain sequence, s its sorted levels: [err, levels, indices]
SplitSorted(f, s, wraps) ==
    IF s.err # "none" THEN [err |-> s.err, levels |-> <<>>, indices |-> <<>>]
    ELSE SplitMatch(s.ret, match(PlainSeq(f), PlainSeq(s.ret), "first", "default",
                                 "default", wraps))
\* split, f a plain sequence: [err, levels, indices]
SplitSequence(f, skip, wraps) ==
    SplitSorted(f, sorted({f[i] : i \in 1..Len(f)} \ skip), wraps)

\* the positions i, in increasing order, with indices[i] = j
CollectedOf(indices, j) ==
    SelectSeq([i \in 1..Len(indices) |-> i - 1], LAMBDA i : indices[i + 1] = j)

NoGroups(err) == [err |-> err, kind |-> "none", keys |-> <<>>, groups |-> <<>>]

\* split, from the height check on, g the levels and the indices
SplitGroups(x, f, g, as_NamedList) ==
       IF g.err # "none" THEN NoGroups(g.err)
       ELSE IF Len(x) # LenOf(f) THEN NoGroups("ValueError")
       ELSE IF \E i \in 1..Len(g.indices) : g.indices[i] >= Len(g.levels)
       THEN NoGroups("IndexError")
       ELSE [err |-> "none",
             kind |-> IF as_NamedList THEN "NamedList" ELSE "dict",
             keys |-> g.levels,
             groups |-> [j \in 1..Len(g.levels) |->
                            subset_list(x, CollectedOf(g.indices, j - 1))]]
\* split(x, f, skip, drop, as_NamedList)
split(x, f, skip, drop, as_NamedList, wraps) ==
    SplitGroups(x, f,
                IF f.kind = "Factor" THEN SplitFactor(f, skip, drop)
                ELSE SplitSequence(f.items, skip, wraps),
                as_NamedList)

MaxSplit == 3

SplitValues == {"A", "B", PyNone}
\* the elements of x
Elements == {"x", "y"}
\* skip: nothing, the default (None), None and a level
Skips == {{}, {PyNone}, {PyNone, "A"}}
SplitFactors ==
    UNION {{FactorArg(c, l) : c \in SeqsOf(-2..(Len(l) - 1), 0, MaxSplit)} : l \in LevelTables}
SplitOptions == [skip : Skips, drop : BOOLEAN, as_NamedList : BOOLEAN, wraps : BOOLEAN]

InitSplit ==
    /\ objs = <<>>
    /\ lists = <<>>
    /\ nams = <<>>
    /\ factors = <<>>
    /\ arrays = <<>>
    /\ last = NoCall
    /\ steps = 1

\* the call with its result r becomes the latest call
SplitDone(x, f, o, r) ==
    /\ steps' = steps - 1
    /\ last' = [op |-> "split", x |-> x, f |-> f, skip |-> o.skip, drop |-> o.drop,
                as_NamedList |-> o.as_NamedList, err |-> r.err, kind |-> r.kind,
                keys |-> r.keys, groups |-> r.groups]
    /\ UNCHANGED <<objs, lists, nams, factors, arrays>>
CallSplit(x, f, o) ==
    SplitDone(x, f, o, split(x, f, o.skip, o.drop, o.as_NamedList, o.wraps))

split_by_sequence ==
    /\ steps > 0
    /\ \E x \in SeqsOf(Elements, 0, MaxSplit), f \in SeqsOf(SplitValues, 0, MaxSplit),
          o \in SplitOptions :
          CallSplit(x, PlainSeq(f), o)

split_by_factor ==
    /\ steps > 0
    /\ \E x \in SeqsOf(Elements, 0, MaxSplit), f \in SplitFactors, o \in SplitOptions :
          CallSplit(x, f, o)

NextSplit == split_by_sequence \/ split_by_factor

SpecSplit == InitSplit /\ [][NextSplit]_vars

\* the keys split must produce: the levels of a Factor in level order
\* without those of skip and, with drop, without those no element has; the
\* sorted distinct values outside skip for a plain sequence
ExpectedKeys(f, skip, drop) ==
    IF f.kind = "Factor"
    THEN SelectSeq(f.levels,
                   LAMBDA lev : /\ lev \notin skip
                                /\ drop => \E i \in 1..Len(f.codes) :
                                              /\ f.codes[i] >= 0
                                              /\ f.levels[f.codes[i] + 1] = lev)
    ELSE SortedStrings({f.items[i] : i \in 1..Len(f.items)} \ skip)

\* C24: for x and f of the same length, f a Factor or a plain sequence
\* whose missing values are skipped, split returns the groups keyed by the
\* levels of f in level order without those of skip (and, with drop, without
\* the empty ones), or by the sorted distinct values of f outside skip; the
\* group of key k is x at the positions i, in increasing order, where
\* f[i] = k, so skipped and missing positions are in no group; as_NamedList
\* gives the same groups under the same keys.
C24_SplitGroups ==
    (/\ last.op = "split"
     /\ Len(last.x) = LenOf(last.f)
     /\ last.f.kind = "list" => PyNone \in last.skip)
       => LET values == Decoded(last.f)
              keys == ExpectedKeys(last.f, last.skip, last.drop)
          IN /\ last.err = "none"
             /\ last.kind = IF last.as_NamedList THEN "NamedList" ELSE "dict"
             /\ last.keys = keys
             /\ last.groups =
                   [j \in 1..Len(keys) |->
                       subset_list(last.x,
                                   SelectSeq([i \in 1..Len(values) |-> i - 1],
                                             LAMBDA i : values[i + 1] = keys[j]))]

(***************************************************************************)
(* combine (src/src/biocutils/combine.py).  An argument is a flat list, or *)
(* an object with a shape of more than one dimension, held as its rows.    *)
(* combine_sequences and combine_rows are other files of the package: the  *)
(* first concatenates the lists, the second the rows.                      *)
(***************************************************************************)

FlatArg(items) == [nd |-> FALSE, items |-> items]
MatrixArg(rows) == [nd |-> TRUE, items |-> rows]

\* hasattr(y, "shape") and len(y.shape) > 1 for some y / not so for some y
has_nd(xs) == \E k \in 1..Len(xs) : xs[k].nd
has_1d(xs) == \E k \in 1..Len(xs) : ~xs[k].nd

\* the items of all arguments, in order
RECURSIVE Concatenated(_)
Concatenated(xs) ==
    IF xs = <<>> THEN <<>> ELSE Head(xs).items \o Concatenated(Tail(xs))
combine_sequences(xs) == FlatArg(Concatenated(xs))
combine_rows(xs) == MatrixArg(Concatenated(xs))

\* a combine that never refuses its arguments
NeverMixed(xs) == FALSE
\* if has_nd and has_1d: raise ValueError
Mixed(xs) == has_nd(xs) /\ has_1d(xs)

\* combine(*x): [err, via, ret]
combine(xs) ==
    IF Mixed(xs) THEN [err |-> "ValueError", via |-> "none", ret |-> FlatArg(<<>>)]
    ELSE IF has_nd(xs)
    THEN [err |-> "none", via |-> "combine_rows", ret |-> combine_rows(xs)]
    ELSE [err |-> "none", via |-> "combine_sequences", ret |-> combine_sequences(xs)]

MaxCombine == 2
MaxItems == 2

CombineArgs ==
    {FlatArg(s) : s \in SeqsOf({"a", "b"}, 0, MaxItems)}
       \cup {MatrixArg(s) : s \in SeqsOf({"a", "b"}, 0, MaxItems)}

InitCombine ==
    /\ objs = <<>>
    /\ lists = <<>>
    /\ nams = <<>>
    /\ factors = <<>>
    /\ arrays = <<>>
    /\ last = NoCall
    /\ steps = 1

CallCombine(xs) ==
    LET r == combine(xs)
    IN /\ steps' = steps - 1
       /\ last' = [op |-> "combine", xs |-> xs, err |-> r.err, via |-> r.via,
                   ret |-> r.ret]
       /\ UNCHANGED <<objs, lists, nams, factors, arrays>>

\* a call with at least one argument
combine_call ==
    /\ steps > 0
    /\ \E xs \in SeqsOf(CombineArgs, 1, MaxCombine) : CallCombine(xs)

NextCombine == combine_call

SpecCombine == InitCombine /\ [][NextCombine]_vars

RECURSIVE SumOfLengths(_)
SumOfLengths(xs) ==
    IF xs = <<>> THEN 0 ELSE Len(Head(xs).items) + SumOfLengths(Tail(xs))

\* the call used combine_sequences and returned the flat concatenation
CombinedAsSequences ==
    /\ last.err = "none"
    /\ last.via = "combine_sequences"
    /\ ~last.ret.nd
    /\ Len(last.ret.items) = SumOfLengths(last.xs)
    /\ last.ret.items = Concatenated(last.xs)
\* the call used the row-wise combiner
CombinedAsRows == last.err = "none" /\ last.via = "combine_rows"

C28_FactorCopyIsIndependent ==
    [][(/\ last.op \in {"copy", "deepcopy", "getitem"}
        /\ last.err = "none"
        /\ last.out \in FactorObjects
        /\ last'.op \in {"replace", "set_levels", "drop_unused_levels"}
        /\ last'.ip
        /\ last'.self \in {last.self, last.out})
          => LET other == IF last'.self = last.out THEN last.self ELSE last.out
             IN Seen(FHeapNext, other) = Seen(FHeap, other)]_vars

(***************************************************************************)
(* Factor.__init__ on codes that are not a NumPy array (Factor.py lines    *)
(* 46-53 and the validation of lines 62-76).  A supplied code is an        *)
(* integer or None.  numpy.ndarray(n, dtype) is not initialised: its       *)
(* elements are whatever the memory holds (garbage).                       *)
(***************************************************************************)

IntCode(v) == [none |-> FALSE, v |-> v]
NoneCode == [none |-> TRUE, v |-> 0]

\* for i, x in enumerate(codes): replacement[i] = -1 or x; [err, ret]
RECURSIVE ReplacementLoop(_, _, _, _)
ReplacementLoop(codes, i, replacement, dtype) ==
    IF i > Len(codes) THEN [err |-> "none", ret |-> replacement]
    ELSE IF codes[i].none THEN [err |-> "TypeError", ret |-> <<>>]
    ELSE IF i > Len(replacement) THEN [err |-> "IndexError", ret |-> <<>>]
    ELSE LET s == StoreAs(dtype, IF codes[i].v < 0 THEN -1 ELSE codes[i].v, FALSE)
         IN IF s.err # "none" THEN [err |-> s.err, ret |-> <<>>]
            ELSE ReplacementLoop(codes, i + 1, [replacement EXCEPT ![i] = s.v], dtype)

\* Factor(codes, levels), codes a list and levels a list of strings:
\* [err, ret], ret the code array of the new Factor
F_init(codes, levels, garbage) ==
    LET dtype == min_scalar_type(-Len(levels))
        r == ReplacementLoop(codes, 1, garbage, dtype)
    IN IF r.err # "none" THEN r
       ELSE IF IsUnsigned(dtype) THEN [err |-> "TypeError", ret |-> <<>>]
       ELSE IF ~FactorValidates(r.ret, levels) THEN [err |-> "ValueError", ret |-> <<>>]
       ELSE r

MaxInit == 3

SuppliedCodes == {NoneCode} \cup {IntCode(v) : v \in -2..MaxLevels}
SuppliedLevels == SeqsOf(Values, 0, MaxLevels)
\* what an array of n elements may hold before it is written
Garbage(n) == [1..n -> {-1, 0, n}]

InitFactorInit ==
    /\ objs = <<>>
    /\ lists = <<>>
    /\ nams = <<>>
    /\ factors = <<>>
    /\ arrays = <<>>
    /\ last = NoCall
    /\ steps = 1

factor_init ==
    /\ steps > 0
    /\ \E codes \in SeqsOf(SuppliedCodes, 0, MaxInit), levels \in SuppliedLevels :
          \E garbage \in Garbage(Len(levels)) :
             LET r == F_init(codes, levels, garbage)
             IN /\ steps' = steps - 1
                /\ last' = [op |-> "Factor", codes |-> codes, levels |-> levels,
                            err |-> r.err, ret |-> r.ret]
                /\ UNCHANGED <<objs, lists, nams, factors, arrays>>

NextFactorInit == factor_init

SpecFactorInit == InitFactorInit /\ [][NextFactorInit]_vars

\* C29: a Factor built from a plain sequence of codes holds one code per
\* supplied element, whatever the number of levels: the supplied code when
\* it is not negative, -1 when it is negative or None; the construction is
\* a ValueError when a code is >= len(levels) or the levels have duplicates.
C29_FactorFromList ==
    last.op = "Factor"
       => LET codes == last.codes
              levels == last.levels
              refused ==
                 \/ \E i \in 1..Len(codes) : ~codes[i].none /\ codes[i].v >= Len(levels)
                 \/ \E i, j \in 1..Len(levels) : i # j /\ levels[i] = levels[j]
          IN IF refused THEN last.err = "ValueError"
             ELSE /\ last.err = "none"
                  /\ last.ret = [i \in 1..Len(codes) |->
                                    IF codes[i].none \/ codes[i].v < 0 THEN -1
                                    ELSE codes[i].v]

(***************************************************************************)
(* NamedDenseMatrix and NamedSparseMatrix                                  *)
(* (src/src/biocutils/NamedDenseMatrix.py, NamedSparseMatrix.py).          *)
(*   objs[1] = the matrix: its kind, its shape, its row and column names   *)
(*             (None or a list) and, for a sparse matrix, the two          *)
(*             dictionaries from name to index.                            *)
(* A subscript is resolved to the row and column indices handed to the     *)
(* wrapped matrix, which are the result recorded for the call.             *)
(***************************************************************************)

NoNames == [named |-> FALSE, names |-> <<>>]
NamesList(ns) == [named |-> TRUE, names |-> ns]

\* {name: idx for idx, name in enumerate(names)} if names is not None
\* else {}: a later entry of the same name replaces the earlier one
NameToIdx(nm) ==
    IF nm.named
    THEN [s \in {nm.names[i] : i \in 1..Len(nm.names)} |->
             Largest({i - 1 : i \in {j \in 1..Len(nm.names) : nm.names[j] = s}})]
    ELSE EmptyDict

\* names.index(key): the first position of key, ValueError when absent
ListIndex(names, key) ==
    Smallest({i - 1 : i \in {j \in 1..Len(names) : names[j] = key}})
InList(names, key) == \E j \in 1..Len(names) : names[j] = key

Resolved(idx) == [err |-> "none", idx |-> idx]
Unresolved(err) == [err |-> err, idx |-> NoKey]

\* NamedDenseMatrix._process_key(key, names)
Dense_process_key(key, nm) ==
    IF ~nm.named \/ key.k \notin {"str", "strs"} THEN Resolved(key)
    ELSE IF key.k = "str"
    THEN IF InList(nm.names, key.s) THEN Resolved(IntKey(ListIndex(nm.names, key.s)))
         ELSE Unresolved("KeyError")
    ELSE IF \A k \in 1..Len(key.ss) : InList(nm.names, key.ss[k])
    THEN Resolved(IntsKey([k \in 1..Len(key.ss) |-> ListIndex(nm.names, key.ss[k])]))
    ELSE Unresolved("ValueError")

\* NamedSparseMatrix._process_key(key, name_to_idx)
Sparse_process_key(key, name_to_idx) ==
    IF DOMAIN name_to_idx = {} \/ key.k \notin {"str", "strs"} THEN Resolved(key)
    ELSE IF key.k = "str"
    THEN IF key.s \in DOMAIN name_to_idx THEN Resolved(IntKey(name_to_idx[key.s]))
         ELSE Unresolved("KeyError")
    ELSE IF \A k \in 1..Len(key.ss) : key.ss[k] \in DOMAIN name_to_idx
    THEN Resolved(IntsKey([k \in 1..Len(key.ss) |-> name_to_idx[key.ss[k]]]))
    ELSE Unresolved("KeyError")

\* _process_key of matrix m for its rows (axis 1) or its columns (axis 2)
process_key(m, key, axis) ==
    IF m.kind = "dense"
    THEN Dense_process_key(key, IF axis = 1 THEN m.row_names ELSE m.column_names)
    ELSE Sparse_process_key(key, IF axis = 1 THEN m.row_to_idx ELSE m.col_to_idx)

\* the wrapped matrix indexed by idx along an axis of n entries: a string
\* is no index, an integer must be inside
IndexFits(idx, n) ==
    /\ idx.k \in {"int", "ints"}
    /\ idx.k = "int" => idx.i >= -n /\ idx.i < n
    /\ \A k \in 1..Len(idx.is) : idx.is[k] >= -n /\ idx.is[k] < n

\* __getitem__((row_key, col_key)): [err, ret], ret the resolved indices
M_getitem(m, row_key, col_key) ==
    LET row == process_key(m, row_key, 1)
        col == process_key(m, col_key, 2)
    IN IF row.err # "none" THEN [err |-> row.err, ret |-> <<>>]
       ELSE IF col.err # "none" THEN [err |-> col.err, ret |-> <<>>]
       ELSE IF ~IndexFits(row.idx, m.shape[1]) \/ ~IndexFits(col.idx, m.shape[2])
       THEN [err |-> "IndexError", ret |-> <<>>]
       ELSE [err |-> "none", ret |-> <<row.idx, col.idx>>]

\* the constructors, for names that fit the shape
NewMatrix(kind, shape, row_names, column_names) ==
    [kind |-> kind, shape |-> shape, row_names |-> row_names,
     column_names |-> column_names,
     row_to_idx |-> IF kind = "sparse" THEN NameToIdx(row_names) ELSE EmptyDict,
     col_to_idx |-> IF kind = "sparse" THEN NameToIdx(column_names) ELSE EmptyDict]

\* set_rows(names), set_columns(names): [err, m]
M_set_rows(m, nm) ==
    IF nm.named /\ Len(nm.names) # m.shape[1] THEN [err |-> "ValueError", m |-> m]
    ELSE [err |-> "none",
          m |-> IF m.kind = "sparse"
                THEN [m EXCEPT !.row_names = nm, !.row_to_idx = NameToIdx(nm)]
                ELSE [m EXCEPT !.row_names = nm]]
M_set_columns(m, nm) ==
    IF nm.named /\ Len(nm.names) # m.shape[2] THEN [err |-> "ValueError", m |-> m]
    ELSE [err |-> "none",
          m |-> IF m.kind = "sparse"
                THEN [m EXCEPT !.column_names = nm, !.col_to_idx = NameToIdx(nm)]
                ELSE [m EXCEPT !.column_names = nm]]

MaxDim == 2
MatrixSteps == 2

MatrixNames == {"a", "b"}
\* None, or a list of n names
NamesFor(n) == {NoNames} \cup {NamesList(ns) : ns \in [1..n -> MatrixNames]}
AnyNames == {NoNames} \cup {NamesList(ns) : ns \in SeqsOf(MatrixNames, 0, MaxDim)}
\* a name, a list of names, a position
MatrixKeys ==
    {StrKey(s) : s \in MatrixNames \cup {"c"}}
       \cup {StrsKey(ss) : ss \in SeqsOf(MatrixNames \cup {"c"}, 1, MaxDim)}
       \cup {IntKey(0)}

InitMatrix ==
    /\ \E kind \in {"dense", "sparse"}, r \in 1..MaxDim, c \in 1..MaxDim :
          \E rn \in NamesFor(r), cn \in NamesFor(c) :
             objs = <<NewMatrix(kind, <<r, c>>, rn, cn)>>
    /\ lists = <<>>
    /\ nams = <<>>
    /\ factors = <<>>
    /\ arrays = <<>>
    /\ last = NoCall
    /\ steps = MatrixSteps

MatrixFrame == UNCHANGED <<lists, nams, factors, arrays>>

set_rows ==
    /\ steps > 0
    /\ \E nm \in AnyNames :
          LET r == M_set_rows(objs[1], nm)
          IN /\ objs' = <<r.m>>
             /\ last' = [op |-> "set_rows", err |-> r.err]
             /\ steps' = steps - 1
             /\ MatrixFrame

set_columns ==
    /\ steps > 0
    /\ \E nm \in AnyNames :
          LET r == M_set_columns(objs[1], nm)
          IN /\ objs' = <<r.m>>
             /\ last' = [op |-> "set_columns", err |-> r.err]
             /\ steps' = steps - 1
             /\ MatrixFrame

\* matrix[row_key, col_key], at most one of the two a list
matrix_getitem ==
    /\ steps > 0
    /\ \E row_key \in MatrixKeys, col_key \in MatrixKeys :
          /\ row_key.k # "strs" \/ col_key.k # "strs"
          /\ LET r == M_getitem(objs[1], row_key, col_key)
             IN /\ last' = [op |-> "getitem", row_key |-> row_key, col_key |-> col_key,
                            err |-> r.err, ret |-> r.ret]
                /\ steps' = steps - 1
                /\ UNCHANGED objs
                /\ MatrixFrame

NextMatrix == set_rows \/ set_columns \/ matrix_getitem

SpecMatrix == InitMatrix /\ [][NextMatrix]_vars

\* what the name key resolves to as NamedList resolves it: the first
\* position of the name, of every name of a list; KeyError when a name is
\* absent
AsNamedList(key, names) ==
    IF key.k = "str"
    THEN IF FirstIndex(names, key.s) < 0 THEN Unresolved("KeyError")
         ELSE Resolved(IntKey(FirstIndex(names, key.s)))
    ELSE IF \E k \in 1..Len(key.ss) : FirstIndex(names, key.ss[k]) < 0
    THEN Unresolved("KeyError")
    ELSE Resolved(IntsKey([k \in 1..Len(key.ss) |-> FirstIndex(names, key.ss[k])]))

\* C30: a subscript of a dense or sparse matrix whose rows and columns are
\* named, made of names or lists of names, resolves each name as NamedList
\* does: to the position of its first occurrence among the row or column
\* names, duplicated or not, set by the constructor or by set_rows /
\* set_columns; a name that is absent is a KeyError.
C30_MatrixResolvesNames ==
    (/\ last.op = "getitem"
     /\ last.row_key.k \in {"str", "strs"} /\ last.col_key.k \in {"str", "strs"}
     /\ objs[1].row_names.named /\ objs[1].column_names.named)
       => LET row == AsNamedList(last.row_key, objs[1].row_names.names)
              col == AsNamedList(last.col_key, objs[1].column_names.names)
          IN IF row.err # "none" \/ col.err # "none" THEN last.err = "KeyError"
             ELSE last.err = "none" /\ last.ret = <<row.idx, col.idx>>

=============================================================================
